---- MODULE Spec2Model ----
(***************************************************************************)
(* A model of gojet: the JWT middleware (util/jwt), the login and register *)
(* handlers with their service and repository calls, the response          *)
(* envelope, and the bootstrap sequence of NewService.                     *)
(*                                                                         *)
(* Time is counted in whole seconds.  Strings that the code takes apart    *)
(* (URL paths, the Authorization header, passwords) are sequences of       *)
(* atoms, so that splitting, prefix replacement and truncation are         *)
(* computed and not assumed.                                               *)
(***************************************************************************)
EXTENDS Integers, Sequences, FiniteSets, TLC

VARIABLES
    bootPc,      \* position of NewService/Start in the bootstrap sequence
    cfg,         \* the loaded configuration (JWT.Secret, JWT.ExpireHours)
    SkipRouter,  \* jwt.SkipRouter: the set of keys mapped to true
    pipeline,    \* the middleware chain registered with r.Use, in order
    store,       \* rows of the user table, in primary-key order
    nextID,      \* the next auto-increment primary key
    clock,       \* time.Now().Unix()
    c,           \* the gin.Context of the request in flight
    held,        \* the LoginResp the client got from its last successful login
    completed,   \* the steps of NewService that have returned without error
    exit,        \* the exit of the process: its code and whether it said why
    call,        \* a function called on its own: its name, inputs and result
    inflight     \* the service calls running side by side, each at its position

vars == <<bootPc, cfg, SkipRouter, pipeline, store, nextID, clock, c, held, completed, exit, call, inflight>>

-----------------------------------------------------------------------------
(* Bounds of the model *)

\* registrations accepted on top of the seed rows
MaxUsers == 1
\* the clock is sampled at seconds 0, 1 and 2 of each hour; MaxTick is the
\* index of the last sample
MaxTick == 4
\* cfg.JWT.ExpireHours is drawn from 1..MaxExpireHours
MaxExpireHours == 1

\* the table holds up to MaxRows rows when the seeding is run on its own
MaxRows == 6
\* an error handed to HandleError on its own is a chain of up to MaxChain links
MaxChain == 2
\* the environment sets up to MaxEnvVars of the variables LoadConfig reads
MaxEnvVars == 2
\* the short plaintexts of the bcrypt round trip have up to MaxPlainLen bytes
MaxPlainLen == 2
\* up to MaxRequests service calls run side by side
MaxRequests == 2
\* the slices handed to sumParallelChunks have up to MaxNums elements
MaxNums == 5
\* runtime.NumCPU() is between 1 and MaxCPU
MaxCPU == 4

(* Program and library constants *)

\* time.Hour in seconds
Hour == 3600
\* bcrypt reads at most 72 bytes of the password
BcryptMaxLen == 72

Instant(k) == (k \div 3) * Hour + (k % 3)
Instants == {Instant(k) : k \in 0..MaxTick}

Min(a, b) == IF a < b THEN a ELSE b

-----------------------------------------------------------------------------
(* Strings *)

\* strings.Split(path, "/"): a path is a sequence of atoms, "/" the separator
RECURSIVE SplitFrom(_, _, _)
SplitFrom(s, i, cur) ==
    IF i > Len(s) THEN <<cur>>
    ELSE IF s[i] = "/" THEN <<cur>> \o SplitFrom(s, i + 1, "")
    ELSE SplitFrom(s, i + 1, cur \o s[i])

Split(s) == SplitFrom(s, 1, "")

\* an atom of a header value: literal text, or a compact JWT
Lit(s) == [k |-> "lit", s |-> s]
Tok(t) == [k |-> "tok", t |-> t]
BearerPrefix == Lit("Bearer ")

\* strings.Replace(header, "Bearer ", "", 1): the first occurrence goes
RECURSIVE ReplaceFirst(_, _)
ReplaceFirst(h, old) ==
    IF h = <<>> THEN <<>>
    ELSE IF Head(h) = old THEN Tail(h)
    ELSE <<Head(h)>> \o ReplaceFirst(Tail(h), old)

\* http.Header.Get: "" for a header that is not there
HeaderGet(hdr) == IF hdr.present THEN hdr.value ELSE <<>>

-----------------------------------------------------------------------------
(* golang-jwt/jwt v5, as far as Sign and jwt.Parse use it *)

\* a JSON value of a claim set: encoding/json reads numbers back as float64
Num(n) == [t |-> "num", v |-> n]
Str(s) == [t |-> "str", v |-> s]

\* the signing methods the library registers; the HMAC ones are the
\* instances of *jwt.SigningMethodHMAC
RegisteredMethods == {"HS256", "HS384", "HS512", "RS256", "none"}
SigningMethodHMAC == {"HS256", "HS384", "HS512"}

\* the MAC of header.payload under a key: equal only for equal inputs
HMAC(alg, key, claims) == [alg |-> alg, key |-> key, input |-> <<alg, claims>>]

\* token.SignedString: header.payload.signature
SignedString(alg, claims, key) ==
    [alg |-> alg, claims |-> claims, sig |-> HMAC(alg, key, claims)]

\* Validator.Validate of v5: exp and nbf are checked when present, with no
\* leeway; exp must lie strictly after now
ValidateClaims(claims, now) ==
    IF "exp" \in DOMAIN claims /\ claims["exp"].t # "num" THEN "invalid claims"
    ELSE IF "exp" \in DOMAIN claims /\ ~(now < claims["exp"].v) THEN "expired"
    ELSE IF "nbf" \in DOMAIN claims /\ claims["nbf"].t # "num" THEN "invalid claims"
    ELSE IF "nbf" \in DOMAIN claims /\ now < claims["nbf"].v THEN "not valid yet"
    ELSE "none"

\* secretFunc validates the secret format: the key, or an error for a
\* method that is not an HMAC one
secretFunc(secret, token) ==
    IF token.alg \notin SigningMethodHMAC THEN [err |-> TRUE, key |-> ""]
    ELSE [err |-> FALSE, key |-> secret]

NoClaims == << >>

\* SigningMethod.Verify with a []byte key: the HMAC methods recompute the
\* MAC, every other method refuses the key type
Verify(alg, key, sig, claims) ==
    /\ alg \in SigningMethodHMAC
    /\ sig = HMAC(alg, key, claims)

\* jwt.Parse(tokenString, secretFunc(secret)) at time now
ParseMutUnverified(tokenString, secret, now) ==
    IF Len(tokenString) # 1 \/ tokenString[1].k # "tok"
    THEN [err |-> "malformed", valid |-> FALSE, claims |-> NoClaims]
    ELSE [err |-> "none", valid |-> TRUE, claims |-> tokenString[1].t.claims]

Parse(tokenString, secret, now) ==
    IF Len(tokenString) # 1 \/ tokenString[1].k # "tok"
    THEN [err |-> "malformed", valid |-> FALSE, claims |-> NoClaims]
    ELSE LET token == tokenString[1].t
             key == secretFunc(secret, token)
         IN  IF token.alg \notin RegisteredMethods
             THEN [err |-> "unverifiable", valid |-> FALSE, claims |-> token.claims]
             ELSE IF key.err
             THEN [err |-> "unverifiable", valid |-> FALSE, claims |-> token.claims]
             ELSE IF ~Verify(token.alg, key.key, token.sig, token.claims)
             THEN [err |-> "signature invalid", valid |-> FALSE, claims |-> token.claims]
             ELSE IF ValidateClaims(token.claims, now) # "none"
             THEN [err |-> ValidateClaims(token.claims, now), valid |-> FALSE,
                   claims |-> token.claims]
             ELSE [err |-> "none", valid |-> TRUE, claims |-> token.claims]

\* Sign: the three time.Now() readings are now1 (nbf), now2 (iat), now3 (exp)
SignMutExpNow(ctx, secret, duration, now1, now2, now3) ==
    SignedString("HS256",
        ("id" :> Num(ctx.ID)) @@ ("username" :> Str(ctx.Username)) @@
        ("nbf" :> Num(now1)) @@ ("iat" :> Num(now2)) @@ ("exp" :> Num(now3)),
        secret)

Sign(ctx, secret, duration, now1, now2, now3) ==
    SignedString("HS256",
        ("id" :> Num(ctx.ID)) @@ ("username" :> Str(ctx.Username)) @@
        ("nbf" :> Num(now1)) @@ ("iat" :> Num(now2)) @@
        ("exp" :> Num(now3 + duration)),
        secret)

-----------------------------------------------------------------------------
(* util/response and util/apperror *)

MsgInvalidParams == "invalid params"
MsgInternalError == "internal error"
MsgRecordNotFound == "record not found"
MsgDBQueryError == "db query error"
MsgDBInsertError == "db insert error"
MsgUserNotFound == "user not found"
MsgUserCreateFailed == "user create failed"
MsgInvalidUserID == "invalid user id"
MsgAuthFailed == "auth failed"
MsgTokenMissing == "token missing"
MsgTokenExpired == "token expired"
MsgTokenInvalid == "token invalid"

NoData == [none |-> TRUE]
NoResp == [written |-> FALSE, status |-> 0, body |-> << >>]

\* c.JSON(httpCode, Response{Code, Message, Data}): the status of a response
\* that is already written stays, the body is appended
JSON(ctx, httpCode, code, message, data) ==
    [ctx EXCEPT !.resp = [written |-> TRUE,
                          status |-> IF @.written THEN @.status ELSE httpCode,
                          body |-> Append(@.body, [code |-> code, message |-> message,
                                                  data |-> data])]]

\* response.Success
Success(ctx, message, data) ==
    JSON(ctx, 200, 200, IF message = "" THEN "ok" ELSE message, data)

\* response.Error: the HTTP status for a business code
Error(ctx, code, message) ==
    LET httpCode == CASE code = 400 -> 400
                      [] code = 401 -> 401
                      [] code = 403 -> 403
                      [] code = 404 -> 404
                      [] code = 500 -> 500
                      [] OTHER -> 400
    IN  JSON(ctx, httpCode, code, message, NoData)

BadRequest(ctx, message) == Error(ctx, 400, message)
NotFound(ctx, message) == Error(ctx, 404, message)
InternalServerError(ctx, message) == Error(ctx, 500, message)

\* an error value is its chain, outermost first: *apperror.Error links
\* carry Code and Message, a library error is a link of kind "raw"
NoErr == << >>
RawErr(text) == <<[kind |-> "raw", Code |-> 0, Message |-> text]>>
New(code, message) == <<[kind |-> "app", Code |-> code, Message |-> message]>>
Wrap(err, code, message) == New(code, message) \o err

\* errors.As(err, &e): the first *apperror.Error of the chain
RECURSIVE As(_)
As(err) ==
    IF err = NoErr THEN [found |-> FALSE, Code |-> 0, Message |-> ""]
    ELSE IF Head(err).kind = "app"
         THEN [found |-> TRUE, Code |-> Head(err).Code, Message |-> Head(err).Message]
         ELSE As(Tail(err))

\* response.HandleError
HandleErrorMutErrorText(ctx, err) ==
    IF err = NoErr THEN ctx
    ELSE LET e == As(err)
         IN  IF e.found
             THEN CASE e.Code = 400 -> BadRequest(ctx, e.Message)
                    [] e.Code = 404 -> NotFound(ctx, e.Message)
                    [] OTHER -> InternalServerError(ctx, e.Message)
             ELSE InternalServerError(ctx, Head(err).Message)

HandleError(ctx, err) ==
    IF err = NoErr THEN ctx
    ELSE LET e == As(err)
         IN  IF e.found
             THEN CASE e.Code = 400 -> BadRequest(ctx, e.Message)
                    [] e.Code = 404 -> NotFound(ctx, e.Message)
                    [] e.Code = 500 -> InternalServerError(ctx, e.Message)
                    [] OTHER -> InternalServerError(ctx, e.Message)
             ELSE InternalServerError(ctx, MsgInternalError)

-----------------------------------------------------------------------------
(* models.User and bcrypt *)

\* bcrypt keys Blowfish with the first 72 bytes of the password
TruncateMutOneByteLess(password) ==
    SubSeq(password, 1, Min(Len(password), BcryptMaxLen - 1))

Truncate(password) == SubSeq(password, 1, Min(Len(password), BcryptMaxLen))

\* the byte 0
NUL == "NUL"

\* the key bytes Blowfish is set up with: bcrypt appends a 0 byte to the
\* password, and the key expansion reads 72 bytes, cycling through the key
KeyStream(password) ==
    LET ckey == Truncate(password) \o <<NUL>>
    IN  [i \in 1..BcryptMaxLen |-> ckey[((i - 1) % Len(ckey)) + 1]]

\* the salted digest: equal only for equal salt and equal key bytes
Digest(salt, password) == <<salt, KeyStream(password)>>

NoHash == [bcrypt |-> FALSE, salt |-> "", digest |-> << >>]

\* models.HashPassword: bcrypt.GenerateFromPassword refuses more than 72 bytes
HashPassword(password, salt) ==
    IF Len(password) > BcryptMaxLen THEN [err |-> TRUE, hash |-> NoHash]
    ELSE [err |-> FALSE,
          hash |-> [bcrypt |-> TRUE, salt |-> salt, digest |-> Digest(salt, password)]]

\* User.CompareSimple: bcrypt.CompareHashAndPassword returns nil
CompareSimpleMutAlwaysTrue(u, password) == TRUE

CompareSimple(u, password) ==
    /\ u.Password.bcrypt
    /\ u.Password.digest = Digest(u.Password.salt, password)

-----------------------------------------------------------------------------
(* dao.UserRepository: the store is the sequence of rows in key order *)

NoUser == [ID |-> 0, Name |-> "", Username |-> "", NickName |-> "", Password |-> NoHash]

\* the rows a query "username = ?" selects, in primary-key order
Matching(st, username) == SelectSeq(st, LAMBDA u : u.Username = username)

\* UserRepository.GetUserByUserName; queryErr: the query itself failed
GetUserByUserNameMutFirstRow(st, username, queryErr) ==
    IF st = << >> THEN [user |-> NoUser, err |-> New(404, MsgRecordNotFound)]
    ELSE [user |-> st[1], err |-> NoErr]

GetUserByUserName(st, username, queryErr) ==
    IF queryErr
    THEN [user |-> NoUser, err |-> Wrap(RawErr("gorm"), 500, MsgDBQueryError)]
    ELSE IF Matching(st, username) = << >>
    THEN [user |-> NoUser, err |-> New(404, MsgRecordNotFound)]
    ELSE [user |-> Matching(st, username)[1], err |-> NoErr]

\* UserRepository.GetAll
GetAll(st, queryErr) ==
    IF queryErr
    THEN [users |-> << >>, err |-> Wrap(RawErr("gorm"), 500, MsgDBQueryError)]
    ELSE [users |-> st, err |-> NoErr]

\* UserRepository.Create: the row gets the next primary key
Create(st, id, user, queryErr) ==
    IF queryErr
    THEN [store |-> st, user |-> user,
          err |-> Wrap(RawErr("gorm"), 500, MsgDBInsertError)]
    ELSE [store |-> Append(st, [user EXCEPT !.ID = id]),
          user |-> [user EXCEPT !.ID = id], err |-> NoErr]

\* UserRepository.CreateBatch: the rows get consecutive primary keys
CreateBatch(st, id, users, queryErr) ==
    IF queryErr
    THEN [store |-> st, err |-> Wrap(RawErr("gorm"), 500, MsgDBInsertError)]
    ELSE [store |-> st \o [i \in 1..Len(users) |-> [users[i] EXCEPT !.ID = id + i - 1]],
          err |-> NoErr]

-----------------------------------------------------------------------------
(* gin.Context *)

\* c.CNext() of a middleware: the chain goes on with the next handler
CNext(ctx) == [ctx EXCEPT !.index = @ + 1]
\* c.Abort(): no handler after this one runs
Abort(ctx) == [ctx EXCEPT !.aborted = TRUE]
\* a panic unwinds to gin.Recovery, which aborts the chain
Panic(ctx) == [ctx EXCEPT !.aborted = TRUE, !.panicked = TRUE]
\* c.Set(key, value)
Set(ctx, key, value) == [ctx EXCEPT !.keys = (key :> value) @@ @]
\* what the request did, for the properties that speak of it
Did(ctx, what) == [ctx EXCEPT !.trace = @ \cup {what}]

-----------------------------------------------------------------------------
(* util/jwt: the Token middleware *)

\* parseToken; ctx.tokenString keeps the string it was called with
parseTokenMutNoAbort(tokenString, secret, ctx, now) ==
    LET r == Parse(tokenString, secret, now)
        ctx1 == [Did(ctx, "parseToken") EXCEPT !.tokenString = tokenString]
    IN  IF r.err # "none" THEN CNext(Error(ctx1, 403, MsgTokenInvalid))
        ELSE IF "id" \notin DOMAIN r.claims \/ r.claims["id"].t # "num"
        THEN Panic(ctx1)
        ELSE IF "username" \notin DOMAIN r.claims \/ r.claims["username"].t # "str"
        THEN Panic(ctx1)
        ELSE CNext(Set(Set(Set(ctx1, "userid", r.claims["id"].v),
                           "username", r.claims["username"].v),
                       "token", tokenString))

parseTokenMutSkipVerify(tokenString, secret, ctx, now) ==
    LET ctx1 == [Did(ctx, "parseToken") EXCEPT !.tokenString = tokenString]
    IN  IF Len(tokenString) # 1 \/ tokenString[1].k # "tok"
        THEN Abort(Error(ctx1, 403, MsgTokenInvalid))
        ELSE LET claims == tokenString[1].t.claims
             IN  IF "id" \notin DOMAIN claims \/ "username" \notin DOMAIN claims
                 THEN Panic(ctx1)
                 ELSE CNext(Set(Set(Set(ctx1, "userid", claims["id"].v),
                                   "username", claims["username"].v),
                               "token", tokenString))

parseToken(tokenString, secret, ctx, now) ==
    LET r == Parse(tokenString, secret, now)
        ctx1 == [Did(ctx, "parseToken") EXCEPT !.tokenString = tokenString]
    IN  IF r.err # "none" THEN Abort(Error(ctx1, 403, MsgTokenInvalid))
        ELSE IF r.valid
        THEN IF "id" \notin DOMAIN r.claims \/ r.claims["id"].t # "num"
             THEN Panic(ctx1)
             ELSE IF "username" \notin DOMAIN r.claims \/ r.claims["username"].t # "str"
             THEN Panic(ctx1)
             ELSE CNext(Set(Set(Set(ctx1, "userid", r.claims["id"].v),
                               "username", r.claims["username"].v),
                           "token", tokenString))
        ELSE Abort(Error(ctx1, 403, MsgTokenExpired))

\* the last element of strings.Split(c.Request.URL.Path, "/")
LastPath(path) == Split(path)[Len(Split(path))]

\* Token
TokenMutHeaderFirst(ctx, skip, now) ==
    LET header == HeaderGet(ctx.header)
        ctx1 == Did(ctx, "header")
    IN  IF Len(header) = 0 THEN Abort(Error(ctx1, 403, MsgTokenMissing))
        ELSE IF LastPath(ctx.path) \in skip THEN CNext(ctx1)
        ELSE parseToken(ReplaceFirst(header, BearerPrefix), ctx.keys["jwt-secret"],
                        ctx1, now)

TokenMutNoMissingCheck(ctx, skip, now) ==
    IF LastPath(ctx.path) \in skip THEN CNext(ctx)
    ELSE parseToken(ReplaceFirst(HeaderGet(ctx.header), BearerPrefix),
                    ctx.keys["jwt-secret"], Did(ctx, "header"), now)

Token(ctx, skip, now) ==
    IF LastPath(ctx.path) \in skip THEN CNext(ctx)
    ELSE LET header == HeaderGet(ctx.header)
             ctx1 == Did(ctx, "header")
         IN  IF Len(header) = 0 THEN Abort(Error(ctx1, 403, MsgTokenMissing))
             ELSE IF "jwt-secret" \notin DOMAIN ctx.keys THEN Panic(ctx1)
             ELSE parseToken(ReplaceFirst(header, BearerPrefix),
                             ctx.keys["jwt-secret"], ctx1, now)

-----------------------------------------------------------------------------
(* service: LoginReq.Login and CreateInitialData *)

Bearer == "Bearer"

\* LoginReq.Login; now1..now3 are the clock readings of Sign
LoginReqLoginMutExpiresInHours(req, ctx, st, config, queryErr, now1, now2, now3) ==
    LET r == GetUserByUserName(st, req.Username, queryErr)
        duration == config.ExpireHours * Hour
    IN  IF r.err # NoErr
        THEN [err |-> Wrap(r.err, 404, MsgUserNotFound), resp |-> NoData,
              did |-> {"store"}]
        ELSE IF ~CompareSimple(r.user, req.Password)
        THEN [err |-> New(401, MsgAuthFailed), resp |-> NoData,
              did |-> {"store", "compare"}]
        ELSE [err |-> NoErr,
              resp |-> [Userid |-> r.user.ID, Username |-> r.user.Username,
                        NickName |-> r.user.NickName,
                        AccessToken |-> Sign([ID |-> r.user.ID,
                                              Username |-> r.user.Username],
                                             ctx.keys["jwt-secret"], duration,
                                             now1, now2, now3),
                        TokenType |-> Bearer,
                        ExpiresIn |-> config.ExpireHours],
              did |-> {"store", "compare", "sign"}]

LoginReqLogin(req, ctx, st, config, queryErr, now1, now2, now3) ==
    LET r == GetUserByUserName(st, req.Username, queryErr)
        duration == config.ExpireHours * Hour
    IN  IF r.err # NoErr
        THEN [err |-> Wrap(r.err, 404, MsgUserNotFound), resp |-> NoData,
              did |-> {"store"}]
        ELSE IF ~CompareSimple(r.user, req.Password)
        THEN [err |-> New(401, MsgAuthFailed), resp |-> NoData,
              did |-> {"store", "compare"}]
        ELSE IF "jwt-secret" \notin DOMAIN ctx.keys
        THEN [err |-> New(500, "JWT secret missing"), resp |-> NoData,
              did |-> {"store", "compare"}]
        ELSE [err |-> NoErr,
              resp |-> [Userid |-> r.user.ID, Username |-> r.user.Username,
                        NickName |-> r.user.NickName,
                        AccessToken |-> Sign([ID |-> r.user.ID,
                                              Username |-> r.user.Username],
                                             ctx.keys["jwt-secret"], duration,
                                             now1, now2, now3),
                        TokenType |-> Bearer,
                        ExpiresIn |-> duration],
              did |-> {"store", "compare", "sign"}]

SeedNames == <<"baozi", "yumi", "huajuan", "tusi">>

\* service.CreateInitialData: insert the seed rows into an empty table
CreateInitialData(st, id, getErr, insertErr) ==
    LET existing == GetAll(st, getErr)
        users == [i \in 1..Len(SeedNames) |-> [NoUser EXCEPT !.Name = SeedNames[i]]]
        batch == CreateBatch(st, id, users, insertErr)
    IN  IF existing.err # NoErr
        THEN [store |-> st, nextID |-> id, err |-> Wrap(existing.err, 500, "check failed")]
        ELSE IF Len(existing.users) > 0
        THEN [store |-> st, nextID |-> id, err |-> NoErr]
        ELSE IF batch.err # NoErr
        THEN [store |-> st, nextID |-> id, err |-> Wrap(batch.err, 500, MsgDBInsertError)]
        ELSE [store |-> batch.store, nextID |-> id + Len(users), err |-> NoErr]

\* UserService.CreateInitialData, the method of the service with a logger:
\* a failed GetAll does not end it
UserServiceCreateInitialData(st, id, getErr, insertErr) ==
    LET existing == GetAll(st, getErr)
        users == [i \in 1..Len(SeedNames) |-> [NoUser EXCEPT !.Name = SeedNames[i]]]
        batch == CreateBatch(st, id, users, insertErr)
    IN  IF existing.err = NoErr /\ Len(existing.users) > 0
        THEN [store |-> st, nextID |-> id, err |-> NoErr]
        ELSE IF batch.err # NoErr
        THEN [store |-> st, nextID |-> id, err |-> batch.err]
        ELSE [store |-> batch.store, nextID |-> id + Len(users), err |-> NoErr]

\* service.CreateUser(name)
CreateUser(st, id, name, queryErr) ==
    LET r == Create(st, id, [NoUser EXCEPT !.Name = name], queryErr)
    IN  IF r.err # NoErr
        THEN [store |-> st, nextID |-> id, err |-> Wrap(r.err, 500, MsgUserCreateFailed)]
        ELSE [store |-> r.store, nextID |-> id + 1, err |-> NoErr]

-----------------------------------------------------------------------------
(* api/v1api: the handlers *)

\* ShouldBindJSON with binding:"required" on every field of the body
BindFails(body) == body.Username = "" \/ body.Password = << >>

\* v1api.Login
Login(ctx, st, config, queryErr, now1, now2, now3) ==
    LET ctx1 == Did(ctx, "handler")
        r == LoginReqLogin(ctx.body, ctx1, st, config, queryErr, now1, now2, now3)
        ctx2 == [ctx1 EXCEPT !.trace = @ \cup r.did]
    IN  IF BindFails(ctx.body) THEN CNext(BadRequest(ctx1, MsgInvalidParams))
        ELSE IF r.err # NoErr THEN CNext(HandleError(ctx2, r.err))
        ELSE CNext(Success(ctx2, "login ok", r.resp))

\* the nick_name a registration body carries next to its username
NickNameOf(username) == "nick of " \o username

\* v1api.Register with service.CreateUser and UserRepository.Create
Register(ctx, st, id, salt, queryErr) ==
    LET ctx1 == Did(ctx, "handler")
        h == HashPassword(ctx.body.Password, salt)
        user == [NoUser EXCEPT !.Username = ctx.body.Username,
                               !.NickName = NickNameOf(ctx.body.Username),
                               !.Password = h.hash]
        r == Create(st, id, user, queryErr)
    IN  IF BindFails(ctx.body)
        THEN [ctx |-> CNext(BadRequest(ctx1, MsgInvalidParams)), store |-> st, nextID |-> id]
        ELSE IF h.err
        THEN [ctx |-> CNext(Error(ctx1, 500, "hash failed")), store |-> st, nextID |-> id]
        ELSE IF r.err # NoErr
        THEN [ctx |-> CNext(HandleError(Did(ctx1, "store"),
                                       Wrap(r.err, 500, MsgUserCreateFailed))),
              store |-> st, nextID |-> id]
        ELSE [ctx |-> CNext(Success(Did(ctx1, "store"), "registered", r.user)),
              store |-> r.store, nextID |-> id + 1]

\* v1api.HealthCheck; ping: sqlDB.Ping() returned nil
HealthCheck(ctx, ping) ==
    LET ctx1 == Did(ctx, "handler")
    IN  IF "db" \notin DOMAIN ctx.keys THEN CNext(Error(ctx1, 503, "db not initialised"))
        ELSE IF ~ping THEN CNext(Error(ctx1, 503, "db connection failed"))
        ELSE IF "config" \notin DOMAIN ctx.keys
        THEN CNext(Error(ctx1, 500, "config not initialised"))
        ELSE CNext(Success(ctx1, "", [status |-> "healthy"]))

\* v1api.GetAllUsers with service.GetAllUsers
GetAllUsers(ctx, st, queryErr) ==
    LET ctx1 == Did(Did(ctx, "handler"), "store")
        r == GetAll(st, queryErr)
    IN  IF r.err # NoErr THEN CNext(HandleError(ctx1, Wrap(r.err, 500, "list failed")))
        ELSE CNext(Success(ctx1, "", r.users))

-----------------------------------------------------------------------------
(* router.SetupRoutes *)

PathLogin == <<"/", "v1", "/", "login">>
PathRegister == <<"/", "v1", "/", "register">>
PathHealth == <<"/", "v1", "/", "health">>
PathUser == <<"/", "v1", "/", "user">>

\* the handler gin finds for a request line
Route(method, path) ==
    LET segs == Split(path)
    IN  CASE segs = <<"", "v1", "health">> /\ method = "GET" -> "HealthCheck"
          [] segs = <<"", "v1", "user">> /\ method = "GET" -> "GetAllUsers"
          [] segs = <<"", "v1", "login">> /\ method = "POST" -> "Login"
          [] segs = <<"", "v1", "register">> /\ method = "POST" -> "Register"
          [] segs = <<"", "v1", "user", "insert">> /\ method = "POST"
                -> "InsertInitialData"
          [] segs = <<"", "v1", "user">> /\ method = "POST" -> "CreateUser"
          [] Len(segs) = 4 /\ SubSeq(segs, 1, 3) = <<"", "v1", "user">>
                /\ segs[4] # "" /\ method \in {"DELETE", "GET", "PUT"}
                -> CASE method = "DELETE" -> "DeleteUser"
                     [] method = "GET" -> "GetUserByID"
                     [] method = "PUT" -> "UpdateUser"
          [] OTHER -> "NoRoute"

\* the chain of a request: the registered middleware, then the handler
Handlers(ctx, chain) == chain \o <<Route(ctx.method, ctx.path)>>

Running(ctx, chain) ==
    /\ ctx.pc = "run"
    /\ ~ctx.aborted
    /\ ctx.index <= Len(Handlers(ctx, chain))

Current(ctx, chain) == Handlers(ctx, chain)[ctx.index]

\* the handler at c.index is called
Enter(ctx, chain) == [ctx EXCEPT !.visited = Append(@, Current(ctx, chain))]

-----------------------------------------------------------------------------
(* The inputs of the model *)

Secrets == {"secretA", "secretB"}
Usernames == {"alice", "bob"}
Passwords == {<<"p", "w", "1">>, <<"p", "w", "2">>}
Salts == {"salt1"}

\* identities tokens are signed for, and the durations they are signed with
TokenContexts == {[ID |-> 5, Username |-> "alice"], [ID |-> 6, Username |-> "bob"]}
Durations == {-1, 1, Hour}

\* tokens Sign has produced at some instant up to now
SignedTokens(now) ==
    {Sign(ctx, key, d, n, n, n) :
        ctx \in TokenContexts, key \in Secrets, d \in Durations,
        n \in {i \in Instants : i <= now}}

\* tokens nobody got from Sign: another algorithm, a payload changed after
\* signing, a payload without id, a payload whose id is a string
Manipulated(t, key) ==
    { SignedString("HS384", t.claims, key),
      [alg |-> "RS256", claims |-> t.claims, sig |-> HMAC("RS256", "rsa", t.claims)],
      [alg |-> "none", claims |-> t.claims, sig |-> HMAC("none", "", t.claims)],
      [t EXCEPT !.claims = ("id" :> Num(1)) @@ @],
      SignedString("HS256", [k \in DOMAIN t.claims \ {"id"} |-> t.claims[k]], key),
      SignedString("HS256", ("id" :> Str("5")) @@ t.claims, key) }

ForgedTokens(now) ==
    UNION {Manipulated(Sign([ID |-> 5, Username |-> "alice"], key, Hour, now, now, now),
                       key) : key \in Secrets}

Absent == [present |-> FALSE, value |-> << >>]
Present(v) == [present |-> TRUE, value |-> v]

\* a token with an hour to live, as a client writes it into the header: with
\* the scheme in front, bare, and with the scheme after it
Placements(now) ==
    LET t == Tok(Sign([ID |-> 5, Username |-> "alice"], "secretA", Hour, now, now, now))
    IN  {Present(<<t>>), Present(<<t, BearerPrefix>>)}

Headers(now) ==
    {Absent, Present(<< >>), Present(<<BearerPrefix, Lit("garbage")>>)}
    \cup {Present(<<BearerPrefix, Tok(t)>>) : t \in SignedTokens(now) \cup ForgedTokens(now)}
    \cup Placements(now)

\* the header of a client that presents the token of its last login
HeldHeaders(h) ==
    IF h = NoData THEN {} ELSE {Present(<<BearerPrefix, Tok(h.AccessToken)>>)}

\* the headers tried on the routes that take a body
FewHeaders(now) ==
    {Absent, Present(<<BearerPrefix, Lit("garbage")>>),
     Present(<<BearerPrefix,
               Tok(Sign([ID |-> 5, Username |-> "alice"], "secretA", Hour, now, now, now))>>)}

NoBody == [Username |-> "", Password |-> << >>]
Bodies == [Username : Usernames \cup {""}, Password : Passwords \cup {<< >>}]

Idle ==
    [pc |-> "idle", method |-> "", path |-> << >>, header |-> Absent, body |-> NoBody,
     index |-> 0, aborted |-> FALSE, panicked |-> FALSE, keys |-> << >>,
     resp |-> NoResp, trace |-> {}, visited |-> << >>, tokenString |-> << >>]

\* rows added by Register so far
Registered(st) == Cardinality({i \in 1..Len(st) : st[i].Username # ""})

-----------------------------------------------------------------------------
(* Bootstrap: NewService and Start *)

NoConfig == [Secret |-> "", ExpireHours |-> 0]

\* no function is being called on its own
NoCall == [fn |-> "none"]

\* a request goroutine that is in no service call
NoService ==
    [fn |-> "none", pc |-> "idle", id |-> 0, name |-> "", user |-> NoUser, err |-> NoErr]

\* the process has not exited
Running0 == [code |-> 0, diagnostic |-> FALSE]
\* slog.Error(...) followed by os.Exit(1) in server()
Exit1 == [code |-> 1, diagnostic |-> TRUE]
\* a panic on the main goroutine: the runtime prints it and exits with 2
Exit2 == [code |-> 2, diagnostic |-> TRUE]

Init ==
    /\ bootPc = "LoadConfig"
    /\ cfg = NoConfig
    /\ SkipRouter = {}
    /\ pipeline = << >>
    /\ store = << >>
    /\ nextID = 1
    /\ clock = 0
    /\ c = Idle
    /\ held = NoData
    /\ completed = << >>
    /\ exit = Running0
    /\ call = NoCall
    /\ inflight = [p \in 1..MaxRequests |-> NoService]

\* config.LoadConfig
LoadConfig ==
    /\ bootPc = "LoadConfig"
    /\ \E secret \in Secrets, hours \in 1..MaxExpireHours :
          cfg' = [Secret |-> secret, ExpireHours |-> hours]
    /\ bootPc' = "Logger"
    /\ UNCHANGED <<SkipRouter, pipeline, store, nextID, clock, c, held, exit, call, inflight>>
    /\ completed' = Append(completed, "LoadConfig")

\* slog.New, slog.SetDefault, gin.SetMode
InitLogger ==
    /\ bootPc = "Logger"
    /\ bootPc' = "OpenDB"
    /\ UNCHANGED <<cfg, SkipRouter, pipeline, store, nextID, clock, c, held, exit, call, inflight>>
    /\ completed' = Append(completed, "Logger")

\* gorm.Open
OpenDB ==
    /\ bootPc = "OpenDB"
    /\ bootPc' = "AutoMigrate"
    /\ UNCHANGED <<cfg, SkipRouter, pipeline, store, nextID, clock, c, held, exit, call, inflight>>
    /\ completed' = Append(completed, "OpenDB")

\* db.AutoMigrate
AutoMigrate ==
    /\ bootPc = "AutoMigrate"
    /\ bootPc' = "InitService"
    /\ UNCHANGED <<cfg, SkipRouter, pipeline, store, nextID, clock, c, held, exit, call, inflight>>
    /\ completed' = Append(completed, "AutoMigrate")

\* dao.NewUserRepository, service.InitService, service.InitAuth
InitService ==
    /\ bootPc = "InitService"
    /\ bootPc' = "CreateInitialData"
    /\ UNCHANGED <<cfg, SkipRouter, pipeline, store, nextID, clock, c, held, exit, call, inflight>>
    /\ completed' = Append(completed, "InitService")

\* service.CreateInitialData at startup
SeedDataMutIgnoreError ==
    /\ bootPc = "CreateInitialData"
    /\ \E getErr \in BOOLEAN, insertErr \in BOOLEAN :
          LET r == CreateInitialData(store, nextID, getErr, insertErr)
          IN  /\ store' = r.store
              /\ nextID' = r.nextID
              /\ bootPc' = "SkipRouter"
              /\ completed' = IF r.err = NoErr
                              THEN Append(completed, "CreateInitialData")
                              ELSE completed
    /\ UNCHANGED <<cfg, SkipRouter, pipeline, clock, c, held, exit, call, inflight>>

SeedData ==
    /\ bootPc = "CreateInitialData"
    /\ \E getErr \in BOOLEAN, insertErr \in BOOLEAN :
          LET r == CreateInitialData(store, nextID, getErr, insertErr)
          IN  /\ store' = r.store
              /\ nextID' = r.nextID
              /\ bootPc' = IF r.err = NoErr THEN "SkipRouter" ELSE "exited"
              /\ completed' = IF r.err = NoErr
                              THEN Append(completed, "CreateInitialData")
                              ELSE completed
              /\ exit' = IF r.err = NoErr THEN exit ELSE Exit1
    /\ UNCHANGED <<cfg, SkipRouter, pipeline, clock, c, held, call, inflight>>

\* jwt.SkipRouter[...] = true
RegisterSkipRouterMutSkipsInsert ==
    /\ bootPc = "SkipRouter"
    /\ SkipRouter' = SkipRouter \cup {"login", "register", "health", "insert"}
    /\ bootPc' = "Use"
    /\ UNCHANGED <<cfg, pipeline, store, nextID, clock, c, held, exit, call, inflight>>
    /\ completed' = Append(completed, "SkipRouter")

RegisterSkipRouter ==
    /\ bootPc = "SkipRouter"
    /\ SkipRouter' = SkipRouter \cup {"login", "register", "health"}
    /\ bootPc' = "Use"
    /\ UNCHANGED <<cfg, pipeline, store, nextID, clock, c, held, exit, call, inflight>>
    /\ completed' = Append(completed, "SkipRouter")

\* the middleware in the order of the r.Use calls
MiddlewareMutTokenBeforeInject == <<"Recovery", "loggingMiddleware", "Token", "inject">>

Middleware == <<"Recovery", "loggingMiddleware", "inject", "Token">>

\* r.Use(...) four times, then router.SetupRoutes
UsePipeline ==
    /\ bootPc = "Use"
    /\ pipeline' = Middleware
    /\ bootPc' = "Start"
    /\ UNCHANGED <<cfg, SkipRouter, store, nextID, clock, c, held, exit, call, inflight>>
    /\ completed' = Append(completed, "Use")

\* Service.Start: ListenAndServe
Start ==
    /\ bootPc = "Start"
    /\ bootPc' = "serving"
    /\ UNCHANGED <<cfg, SkipRouter, pipeline, store, nextID, clock, c, held, completed, exit, call, inflight>>

\* a step of NewService or Start returned an error: slog.Error and
\* os.Exit(1); fileWriter and gin.SetMode do not return an error, they panic
BootFail ==
    /\ bootPc \in {"LoadConfig", "Logger", "OpenDB", "AutoMigrate", "Start"}
    /\ bootPc' = "exited"
    /\ UNCHANGED <<cfg, SkipRouter, pipeline, store, nextID, clock, c, held, completed, call, inflight>>
    /\ exit' = IF bootPc = "Logger" THEN Exit2 ELSE Exit1

-----------------------------------------------------------------------------
(* Requests *)

\* a request of a client without a session arrives and enters the chain
Arrive ==
    /\ bootPc = "serving"
    /\ c.pc = "idle"
    /\ held = NoData
    /\ \/ \E header \in FewHeaders(clock), body \in Bodies :
             \/ c' = [Idle EXCEPT !.pc = "run", !.method = "POST", !.path = PathLogin,
                                  !.header = header, !.body = body, !.index = 1]
             \/ /\ Registered(store) < MaxUsers
                /\ c' = [Idle EXCEPT !.pc = "run", !.method = "POST",
                                     !.path = PathRegister,
                                     !.header = header, !.body = body, !.index = 1]
       \/ \E header \in Headers(clock), path \in {PathHealth, PathUser} :
             c' = [Idle EXCEPT !.pc = "run", !.method = "GET", !.path = path,
                               !.header = header, !.index = 1]
    /\ UNCHANGED <<bootPc, cfg, SkipRouter, pipeline, store, nextID, clock, held, completed, exit, call, inflight>>

\* a request of the client that logged in arrives: it presents the token of
\* its LoginResp
ArriveHeld ==
    /\ bootPc = "serving"
    /\ c.pc = "idle"
    /\ \E header \in HeldHeaders(held), path \in {PathHealth, PathUser} :
          c' = [Idle EXCEPT !.pc = "run", !.method = "GET", !.path = path,
                            !.header = header, !.index = 1]
    /\ UNCHANGED <<bootPc, cfg, SkipRouter, pipeline, store, nextID, clock, held, completed, exit, call, inflight>>

\* the client drops its LoginResp
Forget ==
    /\ c.pc = "idle"
    /\ held # NoData
    /\ held' = NoData
    /\ UNCHANGED <<bootPc, cfg, SkipRouter, pipeline, store, nextID, clock, c, completed, exit, call, inflight>>

\* gin.Recovery on the way in
StepRecovery ==
    /\ Running(c, pipeline)
    /\ Current(c, pipeline) = "Recovery"
    /\ c' = CNext(Enter(c, pipeline))
    /\ UNCHANGED <<bootPc, cfg, SkipRouter, pipeline, store, nextID, clock, held, completed, exit, call, inflight>>

\* loggingMiddleware on the way in
StepLogging ==
    /\ Running(c, pipeline)
    /\ Current(c, pipeline) = "loggingMiddleware"
    /\ c' = CNext(Enter(c, pipeline))
    /\ UNCHANGED <<bootPc, cfg, SkipRouter, pipeline, store, nextID, clock, held, completed, exit, call, inflight>>

\* the middleware that sets jwt-secret, db and config
InjectMutSecretPerPath(ctx, config) ==
    CNext(Set(Set(Set(ctx, "jwt-secret",
                      IF ctx.path = PathLogin THEN "login-secret" ELSE config.Secret),
                  "db", "sqlDB"),
              "config", config))

Inject(ctx, config) ==
    CNext(Set(Set(Set(ctx, "jwt-secret", config.Secret), "db", "sqlDB"), "config", config))

StepInject ==
    /\ Running(c, pipeline)
    /\ Current(c, pipeline) = "inject"
    /\ c' = Inject(Enter(c, pipeline), cfg)
    /\ UNCHANGED <<bootPc, cfg, SkipRouter, pipeline, store, nextID, clock, held, completed, exit, call, inflight>>

StepTokenMutRemembersPath ==
    /\ Running(c, pipeline)
    /\ Current(c, pipeline) = "Token"
    /\ c' = Token(Enter(c, pipeline), SkipRouter, clock)
    /\ SkipRouter' = IF c'.aborted THEN SkipRouter
                     ELSE SkipRouter \cup {LastPath(c.path)}
    /\ UNCHANGED <<bootPc, cfg, pipeline, store, nextID, clock, held, completed, exit, call, inflight>>

StepToken ==
    /\ Running(c, pipeline)
    /\ Current(c, pipeline) = "Token"
    /\ c' = Token(Enter(c, pipeline), SkipRouter, clock)
    /\ UNCHANGED <<bootPc, cfg, SkipRouter, pipeline, store, nextID, clock, held, completed, exit, call, inflight>>

\* the clock readings of one call of Sign: the second may turn in between
Readings(now) ==
    {<<now, now, now>>}
    \cup {<<now, now, n>> : n \in {i \in Instants : i = now + 1}}
    \cup {<<now, n, n>> : n \in {i \in Instants : i = now + 1}}

StepLogin ==
    /\ Running(c, pipeline)
    /\ Current(c, pipeline) = "Login"
    /\ \E queryErr \in BOOLEAN, r \in Readings(clock) :
          /\ c' = Login(Enter(c, pipeline), store, cfg, queryErr, r[1], r[2], r[3])
          /\ clock' = IF "sign" \in c'.trace THEN r[3] ELSE clock
    /\ UNCHANGED <<bootPc, cfg, SkipRouter, pipeline, store, nextID, held, completed, exit, call, inflight>>

StepRegister ==
    /\ Running(c, pipeline)
    /\ Current(c, pipeline) = "Register"
    /\ \E salt \in Salts, queryErr \in BOOLEAN :
          LET r == Register(Enter(c, pipeline), store, nextID, salt, queryErr)
          IN  /\ c' = r.ctx
              /\ store' = r.store
              /\ nextID' = r.nextID
    /\ UNCHANGED <<bootPc, cfg, SkipRouter, pipeline, clock, held, completed, exit, call, inflight>>

StepHealthCheck ==
    /\ Running(c, pipeline)
    /\ Current(c, pipeline) = "HealthCheck"
    /\ \E ping \in BOOLEAN : c' = HealthCheck(Enter(c, pipeline), ping)
    /\ UNCHANGED <<bootPc, cfg, SkipRouter, pipeline, store, nextID, clock, held, completed, exit, call, inflight>>

StepGetAllUsers ==
    /\ Running(c, pipeline)
    /\ Current(c, pipeline) = "GetAllUsers"
    /\ \E queryErr \in BOOLEAN : c' = GetAllUsers(Enter(c, pipeline), store, queryErr)
    /\ UNCHANGED <<bootPc, cfg, SkipRouter, pipeline, store, nextID, clock, held, completed, exit, call, inflight>>

\* the chain has ended or was aborted: gin.Recovery answers a panic with 500
CompleteMutNoRecovery ==
    /\ c.pc = "run"
    /\ ~Running(c, pipeline)
    /\ c' = [c EXCEPT !.pc = "done"]
    /\ UNCHANGED <<bootPc, cfg, SkipRouter, pipeline, store, nextID, clock, held, completed, exit, call, inflight>>

Complete ==
    /\ c.pc = "run"
    /\ ~Running(c, pipeline)
    /\ c' = [c EXCEPT !.pc = "done",
                      !.resp = IF c.panicked /\ ~@.written
                               THEN [@ EXCEPT !.written = TRUE, !.status = 500]
                               ELSE @]
    /\ UNCHANGED <<bootPc, cfg, SkipRouter, pipeline, store, nextID, clock, held, completed, exit, call, inflight>>

\* the body of the response is a LoginResp
TokenIn(resp) ==
    /\ resp.written
    /\ resp.status = 200
    /\ resp.body[1].message = "login ok"

\* the response is on the wire and the client keeps the token of a login;
\* the context is recycled
Close ==
    /\ c.pc = "done"
    /\ c' = Idle
    /\ UNCHANGED <<bootPc, cfg, SkipRouter, pipeline, store, nextID, clock, completed, exit, call, inflight>>
    /\ held' = IF TokenIn(c.resp) THEN c.resp.body[1].data ELSE held

\* time passes between requests
Tick ==
    /\ c.pc = "idle"
    /\ \E n \in Instants :
          /\ n > clock
          /\ \A m \in Instants : m > clock => n <= m
          /\ clock' = n
    /\ UNCHANGED <<bootPc, cfg, SkipRouter, pipeline, store, nextID, c, held, completed, exit, call, inflight>>

Next ==
    \/ LoadConfig \/ InitLogger \/ OpenDB \/ AutoMigrate \/ InitService
    \/ SeedData \/ RegisterSkipRouter \/ UsePipeline \/ Start \/ BootFail
    \/ Arrive \/ ArriveHeld \/ Forget \/ StepRecovery \/ StepLogging \/ StepInject \/ StepToken
    \/ StepLogin \/ StepRegister \/ StepHealthCheck \/ StepGetAllUsers
    \/ Complete \/ Close \/ Tick

Spec == Init /\ [][Next]_vars

-----------------------------------------------------------------------------
(* models.HashPassword and User.CompareSimple called on their own *)

progVars ==
    <<bootPc, cfg, SkipRouter, pipeline, store, nextID, clock, c, held, completed, exit,
      inflight>>

Alphabet == {"a", "b", NUL}

\* n bytes "a"
Pad(n) == [i \in 1..n |-> "a"]

\* every short plaintext, and long ones around the 72 bytes bcrypt reads
Plaintexts ==
    UNION {[1..n -> Alphabet] : n \in 0..MaxPlainLen}
    \cup {Pad(n) : n \in (BcryptMaxLen - 1)..(BcryptMaxLen + 1)}
    \cup {Pad(BcryptMaxLen - 1) \o <<NUL>>}

\* s with its i-th byte replaced by ch, with ch put in before its i-th byte,
\* and with its i-th byte taken out
Substitute(s, i, ch) == [s EXCEPT ![i] = ch]
Insert(s, i, ch) == SubSeq(s, 1, i - 1) \o <<ch>> \o SubSeq(s, i, Len(s))
Delete(s, i) == SubSeq(s, 1, i - 1) \o SubSeq(s, i + 1, Len(s))

\* the plaintexts one character away from p
Variations(p) ==
    ({Substitute(p, i, ch) : i \in 1..Len(p), ch \in Alphabet} \ {p})
    \cup {Insert(p, i, ch) : i \in 1..(Len(p) + 1), ch \in Alphabet}
    \cup {Delete(p, i) : i \in 1..Len(p)}

\* models.HashPassword(p)
CallHashPassword ==
    /\ call.fn = "none"
    /\ \E p \in Plaintexts, salt \in Salts :
          call' = [fn |-> "HashPassword", p |-> p, r |-> HashPassword(p, salt)]
    /\ UNCHANGED progVars

\* u.CompareSimple(q) on a user that holds the hash just made
CallCompareSimple ==
    /\ call.fn = "HashPassword"
    /\ ~call.r.err
    /\ \E q \in {call.p} \cup Variations(call.p) :
          call' = [fn |-> "CompareSimple", p |-> call.p, q |-> q,
                   ok |-> CompareSimple([NoUser EXCEPT !.Password = call.r.hash], q)]
    /\ UNCHANGED progVars

\* the call has returned
Return ==
    /\ call.fn # "none"
    /\ call' = NoCall
    /\ UNCHANGED progVars

NextBcrypt == CallHashPassword \/ CallCompareSimple \/ Return

SpecBcrypt == Init /\ [][NextBcrypt]_vars

-----------------------------------------------------------------------------
(* config.LoadConfig called on its own *)

\* the field of Config each environment variable overrides
EnvField ==
    ("APP_NAME" :> "App.Name") @@ ("APP_PORT" :> "App.Port") @@
    ("APP_MODE" :> "App.Mode") @@ ("DB_HOST" :> "Database.Host") @@
    ("DB_PORT" :> "Database.Port") @@ ("DB_USER" :> "Database.User") @@
    ("DB_PASSWORD" :> "Database.Password") @@ ("DB_NAME" :> "Database.DBName") @@
    ("DB_SSLMODE" :> "Database.SSLMode") @@ ("LOG_LEVEL" :> "Logging.Level") @@
    ("LOG_FORMAT" :> "Logging.Format")

\* the fields of type int
IntFields == {"App.Port", "Database.Port"}

\* the fields no environment variable overrides
FileOnlyFields == {"App.Version", "Logging.Output"}

Fields == {EnvField[k] : k \in DOMAIN EnvField} \cup FileOnlyFields

\* the value of a decimal digit
DigitOf ==
    ("0" :> 0) @@ ("1" :> 1) @@ ("2" :> 2) @@ ("3" :> 3) @@ ("4" :> 4) @@
    ("5" :> 5) @@ ("6" :> 6) @@ ("7" :> 7) @@ ("8" :> 8) @@ ("9" :> 9)

RECURSIVE DecimalValue(_)
DecimalValue(digits) ==
    IF digits = << >> THEN 0
    ELSE 10 * DecimalValue(SubSeq(digits, 1, Len(digits) - 1))
         + DigitOf[digits[Len(digits)]]

\* strconv.Atoi: an optional sign and then decimal digits only
Atoi(val) ==
    LET signed == val # << >> /\ Head(val) \in {"+", "-"}
        digits == IF signed THEN Tail(val) ELSE val
    IN  IF digits = << >> \/ \E i \in 1..Len(digits) : digits[i] \notin DOMAIN DigitOf
        THEN [err |-> TRUE, n |-> 0]
        ELSE [err |-> FALSE,
              n |-> IF signed /\ Head(val) = "-" THEN 0 - DecimalValue(digits)
                    ELSE DecimalValue(digits)]

\* os.Getenv: "" for a variable that is not set
Getenv(env, key) == IF key \in DOMAIN env THEN env[key] ELSE << >>

\* Config.overrideWithEnv
overrideWithEnvMutFileWins(config, env) == config

overrideWithEnv(config, env) ==
    [f \in DOMAIN config |->
        IF \E key \in DOMAIN EnvField : EnvField[key] = f
        THEN LET key == CHOOSE k \in DOMAIN EnvField : EnvField[k] = f
                 val == Getenv(env, key)
             IN  IF val = << >> THEN config[f]
                 ELSE IF f \in IntFields
                 THEN IF Atoi(val).err THEN config[f] ELSE Atoi(val).n
                 ELSE val
        ELSE config[f]]

\* the file could not be read
NoFile == [readable |-> FALSE]

\* config.LoadConfig("config/config.yaml")
ConfigLoadConfig(file, env) ==
    IF ~file.readable THEN [err |-> TRUE, config |-> << >>]
    ELSE [err |-> FALSE, config |-> overrideWithEnv(file.values, env)]

\* a file that gives every field a value
FullFile ==
    [readable |-> TRUE,
     values |-> [f \in Fields |-> IF f \in IntFields THEN 8080
                                   ELSE <<"f", "i", "l", "e">>]]

\* what a variable of the environment can be set to
EnvValues == {<< >>, <<"9", "0">>, <<"0", "7">>, <<"9", "x">>}

\* the environments that set up to MaxEnvVars variables
Environments ==
    UNION {[keys -> EnvValues] :
              keys \in {ks \in SUBSET DOMAIN EnvField : Cardinality(ks) <= MaxEnvVars}}

CallLoadConfig ==
    /\ call.fn = "none"
    /\ \E file \in {FullFile, NoFile}, env \in Environments :
          call' = [fn |-> "LoadConfig", file |-> file, env |-> env,
                   r |-> ConfigLoadConfig(file, env)]
    /\ UNCHANGED progVars

NextConfig == CallLoadConfig \/ Return

SpecConfig == Init /\ [][NextConfig]_vars

-----------------------------------------------------------------------------
(* response.HandleError called on its own *)

\* texts of store and library errors
RawTexts == {"pq: connection refused", "pq: deadlock detected"}

\* the links of an error chain: application errors and library errors
Links ==
    {New(code, message)[1] :
        code \in {400, 401, 404, 500}, message \in {MsgUserNotFound, MsgDBQueryError}}
    \cup {RawErr(text)[1] : text \in RawTexts}

\* the errors a handler can hold, nil among them
ErrorValues == UNION {[1..n -> Links] : n \in 0..MaxChain}

\* a handler calls response.HandleError(c, err) with the error it got
CallHandleError ==
    /\ call.fn = "none"
    /\ \E err \in ErrorValues \ {NoErr} :
          call' = [fn |-> "HandleError", err |-> err,
                   resp |-> HandleError([Idle EXCEPT !.pc = "run"], err).resp]
    /\ UNCHANGED progVars

NextHandleError == CallHandleError \/ Return

SpecHandleError == Init /\ [][NextHandleError]_vars

-----------------------------------------------------------------------------
(* The seeding called on its own, against a table other calls have filled *)

seedVars ==
    <<bootPc, cfg, SkipRouter, pipeline, clock, c, held, completed, exit, inflight>>

Names == {"ann", "ben"}

\* service.CreateInitialData(), as NewService and InsertInitialData call it
RunCreateInitialData ==
    /\ call.fn = "none"
    /\ \E getErr \in BOOLEAN, insertErr \in BOOLEAN :
          LET r == CreateInitialData(store, nextID, getErr, insertErr)
          IN  /\ Len(r.store) <= MaxRows
              /\ store' = r.store
              /\ nextID' = r.nextID
              /\ call' = [fn |-> "CreateInitialData", before |-> store,
                          getErr |-> getErr, err |-> r.err]
    /\ UNCHANGED seedVars

\* userService.CreateInitialData(), as the NewService without JWT calls it
RunUserServiceCreateInitialData ==
    /\ call.fn = "none"
    /\ \E getErr \in BOOLEAN, insertErr \in BOOLEAN :
          LET r == UserServiceCreateInitialData(store, nextID, getErr, insertErr)
          IN  /\ Len(r.store) <= MaxRows
              /\ store' = r.store
              /\ nextID' = r.nextID
              /\ call' = [fn |-> "UserService.CreateInitialData", before |-> store,
                          getErr |-> getErr, err |-> r.err]
    /\ UNCHANGED seedVars

\* service.CreateUser(name)
RunCreateUser ==
    /\ call.fn = "none"
    /\ Len(store) < MaxRows
    /\ \E name \in Names, queryErr \in BOOLEAN :
          LET r == CreateUser(store, nextID, name, queryErr)
          IN  /\ store' = r.store
              /\ nextID' = r.nextID
              /\ call' = [fn |-> "CreateUser", before |-> store,
                          getErr |-> queryErr, err |-> r.err]
    /\ UNCHANGED seedVars

NextSeed ==
    RunCreateInitialData \/ RunUserServiceCreateInitialData \/ RunCreateUser \/ Return

SpecSeed == Init /\ [][NextSeed]_vars

-----------------------------------------------------------------------------
(* The routes under /v1/user: repository, service and handlers *)

MsgUserUpdateFailed == "user update failed"
MsgUserDeleteFailed == "user delete failed"
MsgDBUpdateError == "db update error"
MsgDBDeleteError == "db delete error"

\* UserRepository.GetByID: db.First(&user, id)
GetByID(st, id, queryErr) ==
    IF queryErr
    THEN [user |-> NoUser, err |-> Wrap(RawErr("gorm"), 500, MsgDBQueryError)]
    ELSE IF \A i \in 1..Len(st) : st[i].ID # id
    THEN [user |-> NoUser, err |-> New(404, MsgRecordNotFound)]
    ELSE [user |-> st[CHOOSE i \in 1..Len(st) : st[i].ID = id], err |-> NoErr]

\* UserRepository.Update: db.Save(user) writes every column of the row that
\* has the primary key of user; when its UPDATE touches no row, gorm inserts
\* the record under that key
Update(st, user, queryErr) ==
    IF queryErr
    THEN [store |-> st, err |-> Wrap(RawErr("gorm"), 500, MsgDBUpdateError)]
    ELSE IF \E i \in 1..Len(st) : st[i].ID = user.ID
    THEN [store |-> [i \in 1..Len(st) |-> IF st[i].ID = user.ID THEN user ELSE st[i]],
          err |-> NoErr]
    ELSE [store |-> SelectSeq(st, LAMBDA u : u.ID < user.ID) \o <<user>>
                    \o SelectSeq(st, LAMBDA u : u.ID > user.ID),
          err |-> NoErr]

\* UserRepository.Delete: db.Delete(&models.User{}, id); a DELETE that
\* matches no row is not an error
UserRepositoryDelete(st, id, queryErr) ==
    IF queryErr
    THEN [store |-> st, err |-> Wrap(RawErr("gorm"), 500, MsgDBDeleteError)]
    ELSE [store |-> SelectSeq(st, LAMBDA u : u.ID # id), err |-> NoErr]

\* service.UpdateUser: read the record, set its name, save it
ServiceUpdateUser(st, id, name, getErr, saveErr) ==
    LET r == GetByID(st, id, getErr)
        user == [r.user EXCEPT !.Name = name]
        u == Update(st, user, saveErr)
    IN  IF r.err # NoErr THEN [store |-> st, user |-> NoUser, err |-> r.err]
        ELSE IF u.err # NoErr
        THEN [store |-> st, user |-> NoUser,
              err |-> Wrap(u.err, 500, MsgUserUpdateFailed)]
        ELSE [store |-> u.store, user |-> user, err |-> NoErr]

\* service.DeleteUser
ServiceDeleteUser(st, id, queryErr) ==
    LET r == UserRepositoryDelete(st, id, queryErr)
    IN  IF r.err # NoErr
        THEN [store |-> st, err |-> Wrap(r.err, 500, MsgUserDeleteFailed)]
        ELSE [store |-> r.store, err |-> NoErr]

\* c.Param("id"): the characters of the path behind its last "/"
Param(path) ==
    LET k == CHOOSE i \in 1..Len(path) :
                 path[i] = "/" /\ \A j \in (i + 1)..Len(path) : path[j] # "/"
    IN  SubSeq(path, k + 1, Len(path))

\* c.ShouldBindUri(&idParam) with ID int `uri:"id" binding:"required,min=1"`:
\* the parameter is parsed as an int, required refuses the zero value and
\* min=1 everything below 1
BindUriMutNoRequired(param) ==
    LET a == Atoi(param)
    IN  IF a.err THEN [err |-> TRUE, ID |-> 0]
        ELSE IF a.n < 0 THEN [err |-> TRUE, ID |-> 0]
        ELSE [err |-> FALSE, ID |-> a.n]

BindUri(param) ==
    LET a == Atoi(param)
    IN  IF a.err THEN [err |-> TRUE, ID |-> 0]
        ELSE IF a.n = 0 THEN [err |-> TRUE, ID |-> 0]
        ELSE IF a.n < 1 THEN [err |-> TRUE, ID |-> 0]
        ELSE [err |-> FALSE, ID |-> a.n]

\* v1api.InsertInitialData
InsertInitialData(ctx, st, id, getErr, insertErr) ==
    LET ctx1 == Did(Did(ctx, "handler"), "store")
        r == CreateInitialData(st, id, getErr, insertErr)
    IN  IF r.err # NoErr
        THEN [ctx |-> CNext(HandleError(ctx1, r.err)), store |-> st, nextID |-> id]
        ELSE [ctx |-> CNext(Success(ctx1, "inserted", NoData)),
              store |-> r.store, nextID |-> r.nextID]

\* v1api.DeleteUser; uint(idParam.ID) keeps the value, which is at least 1
DeleteUser(ctx, st, queryErr) ==
    LET ctx1 == Did(ctx, "handler")
        idParam == BindUri(Param(ctx.path))
        r == ServiceDeleteUser(st, idParam.ID, queryErr)
    IN  IF idParam.err
        THEN [ctx |-> CNext(BadRequest(ctx1, MsgInvalidUserID)), store |-> st]
        ELSE IF r.err # NoErr
        THEN [ctx |-> CNext(HandleError(Did(ctx1, "store"), r.err)), store |-> st]
        ELSE [ctx |-> CNext(Success(Did(ctx1, "store"), "deleted", NoData)),
              store |-> r.store]

\* v1api.GetUserByID with service.GetUserByID, which hands the error on
GetUserByID(ctx, st, queryErr) ==
    LET ctx1 == Did(ctx, "handler")
        idParam == BindUri(Param(ctx.path))
        r == GetByID(st, idParam.ID, queryErr)
    IN  IF idParam.err THEN CNext(BadRequest(ctx1, MsgInvalidUserID))
        ELSE IF r.err # NoErr THEN CNext(HandleError(Did(ctx1, "store"), r.err))
        ELSE CNext(Success(Did(ctx1, "store"), "", r.user))

\* v1api.UpdateUser; the body is an UpdateUserRequest, its name required
UpdateUser(ctx, st, getErr, saveErr) ==
    LET ctx1 == Did(ctx, "handler")
        idParam == BindUri(Param(ctx.path))
        r == ServiceUpdateUser(st, idParam.ID, ctx.body.Name, getErr, saveErr)
    IN  IF idParam.err
        THEN [ctx |-> CNext(BadRequest(ctx1, MsgInvalidUserID)), store |-> st]
        ELSE IF ctx.body.Name = ""
        THEN [ctx |-> CNext(BadRequest(ctx1, MsgInvalidParams)), store |-> st]
        ELSE IF r.err # NoErr
        THEN [ctx |-> CNext(HandleError(Did(ctx1, "store"), r.err)), store |-> st]
        ELSE [ctx |-> CNext(Success(Did(ctx1, "store"), "updated", r.user)),
              store |-> r.store]

\* v1api.CreateUser with service.CreateUser and UserRepository.Create
V1apiCreateUser(ctx, st, id, salt, queryErr) ==
    LET ctx1 == Did(ctx, "handler")
        h == HashPassword(ctx.body.Password, salt)
        user == [NoUser EXCEPT !.Username = ctx.body.Username,
                               !.NickName = NickNameOf(ctx.body.Username),
                               !.Password = h.hash]
        r == Create(st, id, user, queryErr)
    IN  IF BindFails(ctx.body)
        THEN [ctx |-> CNext(BadRequest(ctx1, MsgInvalidParams)), store |-> st, nextID |-> id]
        ELSE IF h.err
        THEN [ctx |-> CNext(Error(ctx1, 500, "hash failed")), store |-> st, nextID |-> id]
        ELSE IF r.err # NoErr
        THEN [ctx |-> CNext(HandleError(Did(ctx1, "store"),
                                       Wrap(r.err, 500, MsgUserCreateFailed))),
              store |-> st, nextID |-> id]
        ELSE [ctx |-> CNext(Success(Did(ctx1, "store"), "created", r.user)),
              store |-> r.store, nextID |-> id + 1]

-----------------------------------------------------------------------------
(* Requests to the routes under /v1/user *)

PathInsert == PathUser \o <<"/", "insert">>
PathUserID(seg) == PathUser \o <<"/">> \o seg

\* what stands in the place of :id: keys of rows, a key of no row, numbers
\* below 1, text that is no number, and the words of the allow-list
IdSegments ==
    {<<"1">>, <<"2">>, <<"9">>, <<"0">>, <<"-", "3">>, <<"1", "x">>,
     <<"login">>, <<"register">>, <<"health">>}

\* no header, a header that is no token, a token with an hour to live and
\* one that has expired
UserHeaders(now) ==
    FewHeaders(now)
    \cup {Present(<<BearerPrefix,
                    Tok(Sign([ID |-> 5, Username |-> "alice"], "secretA", -1,
                             now, now, now))>>)}

NameBodies == {[Name |-> ""], [Name |-> "ann"]}
UserBodies == {NoBody, [Username |-> "alice", Password |-> <<"p", "w", "1">>]}

\* a request to one of the routes of the users group arrives
ArriveUser ==
    /\ bootPc = "serving"
    /\ c.pc = "idle"
    /\ \E header \in UserHeaders(clock) :
          \/ \E seg \in IdSegments, method \in {"DELETE", "GET"} :
                c' = [Idle EXCEPT !.pc = "run", !.method = method,
                                  !.path = PathUserID(seg), !.header = header,
                                  !.index = 1]
          \/ \E seg \in IdSegments, body \in NameBodies :
                c' = [Idle EXCEPT !.pc = "run", !.method = "PUT",
                                  !.path = PathUserID(seg), !.header = header,
                                  !.body = body, !.index = 1]
          \/ c' = [Idle EXCEPT !.pc = "run", !.method = "POST", !.path = PathInsert,
                               !.header = header, !.index = 1]
          \/ c' = [Idle EXCEPT !.pc = "run", !.method = "GET", !.path = PathUser,
                               !.header = header, !.index = 1]
          \/ /\ Registered(store) < MaxUsers
             /\ \E body \in UserBodies :
                   c' = [Idle EXCEPT !.pc = "run", !.method = "POST",
                                     !.path = PathUser, !.header = header,
                                     !.body = body, !.index = 1]
    /\ UNCHANGED <<bootPc, cfg, SkipRouter, pipeline, store, nextID, clock, held, completed, exit, call, inflight>>

StepInsertInitialData ==
    /\ Running(c, pipeline)
    /\ Current(c, pipeline) = "InsertInitialData"
    /\ \E getErr \in BOOLEAN, insertErr \in BOOLEAN :
          LET r == InsertInitialData(Enter(c, pipeline), store, nextID, getErr, insertErr)
          IN  /\ c' = r.ctx
              /\ store' = r.store
              /\ nextID' = r.nextID
    /\ UNCHANGED <<bootPc, cfg, SkipRouter, pipeline, clock, held, completed, exit, call, inflight>>

StepDeleteUser ==
    /\ Running(c, pipeline)
    /\ Current(c, pipeline) = "DeleteUser"
    /\ \E queryErr \in BOOLEAN :
          LET r == DeleteUser(Enter(c, pipeline), store, queryErr)
          IN  /\ c' = r.ctx
              /\ store' = r.store
    /\ UNCHANGED <<bootPc, cfg, SkipRouter, pipeline, nextID, clock, held, completed, exit, call, inflight>>

StepGetUserByID ==
    /\ Running(c, pipeline)
    /\ Current(c, pipeline) = "GetUserByID"
    /\ \E queryErr \in BOOLEAN : c' = GetUserByID(Enter(c, pipeline), store, queryErr)
    /\ UNCHANGED <<bootPc, cfg, SkipRouter, pipeline, store, nextID, clock, held, completed, exit, call, inflight>>

StepUpdateUser ==
    /\ Running(c, pipeline)
    /\ Current(c, pipeline) = "UpdateUser"
    /\ \E getErr \in BOOLEAN, saveErr \in BOOLEAN :
          LET r == UpdateUser(Enter(c, pipeline), store, getErr, saveErr)
          IN  /\ c' = r.ctx
              /\ store' = r.store
    /\ UNCHANGED <<bootPc, cfg, SkipRouter, pipeline, nextID, clock, held, completed, exit, call, inflight>>

StepCreateUser ==
    /\ Running(c, pipeline)
    /\ Current(c, pipeline) = "CreateUser"
    /\ \E salt \in Salts, queryErr \in BOOLEAN :
          LET r == V1apiCreateUser(Enter(c, pipeline), store, nextID, salt, queryErr)
          IN  /\ c' = r.ctx
              /\ store' = r.store
              /\ nextID' = r.nextID
    /\ UNCHANGED <<bootPc, cfg, SkipRouter, pipeline, clock, held, completed, exit, call, inflight>>

NextUsers ==
    \/ LoadConfig \/ InitLogger \/ OpenDB \/ AutoMigrate \/ InitService
    \/ SeedData \/ RegisterSkipRouter \/ UsePipeline \/ Start \/ BootFail
    \/ ArriveUser \/ StepRecovery \/ StepLogging \/ StepInject \/ StepToken
    \/ StepInsertInitialData \/ StepDeleteUser \/ StepGetUserByID \/ StepGetAllUsers
    \/ StepCreateUser \/ StepUpdateUser
    \/ Complete \/ Close

SpecUsers == Init /\ [][NextUsers]_vars

-----------------------------------------------------------------------------
(* Service calls of requests that are served side by side.  Each request has
   its goroutine; the calls share the table and nothing else, and a call is
   one step per statement it sends to the database. *)

raceVars == <<bootPc, cfg, SkipRouter, pipeline, clock, c, held, completed, exit, call>>

\* the keys DeleteUser is called with, and the key and name of UpdateUser
DeleteIds == 1..Len(SeedNames)
UpdateIds == {1}
UpdateNames == {"ann"}

\* a request calls service.CreateInitialData, UpdateUser or DeleteUser
BeginService ==
    /\ \E p \in 1..MaxRequests :
          /\ inflight[p].pc = "idle"
          /\ \/ inflight' = [inflight EXCEPT ![p] =
                    [NoService EXCEPT !.fn = "CreateInitialData", !.pc = "GetAll"]]
             \/ \E id \in UpdateIds, name \in UpdateNames :
                   inflight' = [inflight EXCEPT ![p] =
                       [NoService EXCEPT !.fn = "UpdateUser", !.pc = "GetByID",
                                         !.id = id, !.name = name]]
             \/ \E id \in DeleteIds :
                   inflight' = [inflight EXCEPT ![p] =
                       [NoService EXCEPT !.fn = "DeleteUser", !.pc = "Delete", !.id = id]]
    /\ UNCHANGED <<store, nextID>>
    /\ UNCHANGED raceVars

\* CreateInitialData: userRepo.GetAll() and the decision taken on its result
InitialDataGetAll ==
    /\ \E p \in 1..MaxRequests, getErr \in BOOLEAN :
          /\ inflight[p].fn = "CreateInitialData"
          /\ inflight[p].pc = "GetAll"
          /\ LET existing == GetAll(store, getErr)
             IN  inflight' = [inflight EXCEPT ![p] =
                     IF existing.err # NoErr
                     THEN [@ EXCEPT !.pc = "done",
                                    !.err = Wrap(existing.err, 500, "check failed")]
                     ELSE IF Len(existing.users) > 0 THEN [@ EXCEPT !.pc = "done"]
                     ELSE [@ EXCEPT !.pc = "CreateBatch"]]
    /\ UNCHANGED <<store, nextID>>
    /\ UNCHANGED raceVars

\* CreateInitialData: userRepo.CreateBatch(users)
InitialDataCreateBatch ==
    /\ \E p \in 1..MaxRequests, insertErr \in BOOLEAN :
          /\ inflight[p].fn = "CreateInitialData"
          /\ inflight[p].pc = "CreateBatch"
          /\ LET users == [i \in 1..Len(SeedNames) |-> [NoUser EXCEPT !.Name = SeedNames[i]]]
                 batch == CreateBatch(store, nextID, users, insertErr)
             IN  /\ store' = batch.store
                 /\ nextID' = IF batch.err = NoErr THEN nextID + Len(users) ELSE nextID
                 /\ inflight' = [inflight EXCEPT ![p] =
                        [@ EXCEPT !.pc = "done",
                                  !.err = IF batch.err = NoErr THEN NoErr
                                          ELSE Wrap(batch.err, 500, MsgDBInsertError)]]
    /\ UNCHANGED raceVars

\* UpdateUser: userRepo.GetByID(id), then user.Name = name on the copy read
UpdateUserGetByID ==
    /\ \E p \in 1..MaxRequests, getErr \in BOOLEAN :
          /\ inflight[p].fn = "UpdateUser"
          /\ inflight[p].pc = "GetByID"
          /\ LET r == GetByID(store, inflight[p].id, getErr)
             IN  inflight' = [inflight EXCEPT ![p] =
                     IF r.err # NoErr THEN [@ EXCEPT !.pc = "done", !.err = r.err]
                     ELSE [@ EXCEPT !.pc = "Update",
                                    !.user = [r.user EXCEPT !.Name = inflight[p].name]]]
    /\ UNCHANGED <<store, nextID>>
    /\ UNCHANGED raceVars

\* UpdateUser: userRepo.Update(user)
UpdateUserUpdate ==
    /\ \E p \in 1..MaxRequests, saveErr \in BOOLEAN :
          /\ inflight[p].fn = "UpdateUser"
          /\ inflight[p].pc = "Update"
          /\ LET u == Update(store, inflight[p].user, saveErr)
             IN  /\ store' = u.store
                 /\ inflight' = [inflight EXCEPT ![p] =
                        [@ EXCEPT !.pc = "done",
                                  !.err = IF u.err = NoErr THEN NoErr
                                          ELSE Wrap(u.err, 500, MsgUserUpdateFailed)]]
    /\ UNCHANGED nextID
    /\ UNCHANGED raceVars

\* DeleteUser: its one statement
DeleteUserDelete ==
    /\ \E p \in 1..MaxRequests, queryErr \in BOOLEAN :
          /\ inflight[p].fn = "DeleteUser"
          /\ inflight[p].pc = "Delete"
          /\ LET r == ServiceDeleteUser(store, inflight[p].id, queryErr)
             IN  /\ store' = r.store
                 /\ inflight' = [inflight EXCEPT ![p] = [@ EXCEPT !.pc = "done", !.err = r.err]]
    /\ UNCHANGED nextID
    /\ UNCHANGED raceVars

\* the handler has answered and the goroutine of the request ends; the
\* requests in flight all end before the next ones are taken up
EndService ==
    /\ \A p \in 1..MaxRequests : inflight[p].pc \in {"idle", "done"}
    /\ \E p \in 1..MaxRequests : inflight[p].pc = "done"
    /\ inflight' = [p \in 1..MaxRequests |-> NoService]
    /\ UNCHANGED <<store, nextID>>
    /\ UNCHANGED raceVars

NextRace ==
    \/ BeginService \/ InitialDataGetAll \/ InitialDataCreateBatch
    \/ UpdateUserGetByID \/ UpdateUserUpdate \/ DeleteUserDelete \/ EndService

SpecRace == Init /\ [][NextRace]_vars

-----------------------------------------------------------------------------
(* code: sumSequential and sumParallelChunks.  The sums are int64; addition
   modulo 2^64 is associative and commutative, so the order of the additions
   does not show in the result and the elements are kept small. *)

\* sumSequential
RECURSIVE sumSequential(_)
sumSequential(nums) ==
    IF nums = << >> THEN 0 ELSE Head(nums) + sumSequential(Tail(nums))

\* the slices and chunk counts sumParallelChunks is called with
Slices == UNION {[1..n -> {1, 2}] : n \in 0..MaxNums}
ChunkCounts == (0 - 1)..(MaxNums + 1)

\* sumParallelChunks up to its first loop: the empty slice returns 0, a chunk
\* count of 0 or less becomes runtime.NumCPU(), one above len(nums) becomes
\* len(nums); then the channel is made and the chunk size computed
CallSumParallelChunks ==
    /\ call.fn = "none"
    /\ \E nums \in Slices, numChunks \in ChunkCounts, NumCPU \in 1..MaxCPU :
          LET n1 == IF numChunks <= 0 THEN NumCPU ELSE numChunks
              n2 == IF Len(nums) < n1 THEN Len(nums) ELSE n1
          IN  call' =
                IF Len(nums) = 0
                THEN [fn |-> "sumParallelChunks", nums |-> nums, arg |-> numChunks,
                      pc |-> "returned", numChunks |-> 0, chunkSize |-> 0, i |-> 0,
                      goroutines |-> {}, results |-> << >>, received |-> 0, total |-> 0]
                ELSE [fn |-> "sumParallelChunks", nums |-> nums, arg |-> numChunks,
                      pc |-> "spawn", numChunks |-> n2,
                      chunkSize |-> (Len(nums) + n2 - 1) \div n2, i |-> 0,
                      goroutines |-> {}, results |-> << >>, received |-> 0, total |-> 0]
    /\ UNCHANGED progVars

\* one round of the first loop: nums[start:end] is evaluated and the
\* goroutine started with it; a slice expression with start above end panics
SpawnChunk ==
    /\ call.fn = "sumParallelChunks"
    /\ call.pc = "spawn"
    /\ LET start == call.i * call.chunkSize
           end == Min((call.i + 1) * call.chunkSize, Len(call.nums))
       IN  call' =
             IF start > end THEN [call EXCEPT !.pc = "panicked"]
             ELSE [call EXCEPT
                     !.goroutines = @ \cup {[i |-> call.i,
                                             chunk |-> SubSeq(call.nums, start + 1, end)]},
                     !.i = @ + 1,
                     !.pc = IF call.i + 1 < call.numChunks THEN "spawn" ELSE "collect"]
    /\ UNCHANGED progVars

\* a goroutine sums its chunk and sends the sum; the channel holds up to
\* numChunks values
SendLocalSum ==
    /\ call.fn = "sumParallelChunks"
    /\ call.pc \in {"spawn", "collect"}
    /\ Len(call.results) < call.numChunks
    /\ \E g \in call.goroutines :
          call' = [call EXCEPT !.goroutines = @ \ {g},
                               !.results = Append(@, sumSequential(g.chunk))]
    /\ UNCHANGED progVars

\* one round of the second loop: total += <-results
ReceiveResult ==
    /\ call.fn = "sumParallelChunks"
    /\ call.pc = "collect"
    /\ call.results # << >>
    /\ call' = [call EXCEPT !.total = @ + Head(call.results),
                            !.results = Tail(@),
                            !.received = @ + 1,
                            !.pc = IF call.received + 1 < call.numChunks
                                   THEN "collect" ELSE "returned"]
    /\ UNCHANGED progVars

\* the caller has the result, or the panic has ended the program
EndSum ==
    /\ call.fn = "sumParallelChunks"
    /\ call.pc \in {"returned", "panicked"}
    /\ call' = NoCall
    /\ UNCHANGED progVars

NextSum == CallSumParallelChunks \/ SpawnChunk \/ SendLocalSum \/ ReceiveResult \/ EndSum

SpecSum == Init /\ [][NextSum]_vars

-----------------------------------------------------------------------------
(* Properties *)

AllowList == {"login", "register", "health"}
IdentityKeys == {"userid", "username", "token"}
Downstream == {"handler", "store", "compare", "sign"}

\* the Token middleware has acted on the request in flight
PastToken ==
    /\ c.pc \in {"run", "done"}
    /\ \/ c.aborted
       \/ \E i \in 1..Len(pipeline) : pipeline[i] = "Token" /\ c.index > i

\* ALLOWED: the chain went on behind Token
Allowed == PastToken /\ ~c.aborted /\ ~c.panicked

\* the response is the middleware's 403 with the given message
Answered403(message) ==
    /\ c.resp.written
    /\ c.resp.status = 403
    /\ c.resp.body[1].code = 403
    /\ c.resp.body[1].message = message

\* REJECTED with a reason
RejectedWith(message) == PastToken /\ c.aborted /\ ~c.panicked /\ Answered403(message)

Protected == LastPath(c.path) \notin AllowList

\* the string Token hands to parseToken
HeaderToken == ReplaceFirst(HeaderGet(c.header), BearerPrefix)
WellFormed == Len(HeaderToken) = 1 /\ HeaderToken[1].k = "tok"
TheToken == HeaderToken[1].t
\* the MAC of the token recomputes under the configured secret
MacValid == TheToken.sig = HMAC(TheToken.alg, cfg.Secret, TheToken.claims)

\* C1: a request whose final path segment is login, register or health passes
\* Token whatever its Authorization header is: the header is not read, no
\* token is parsed, no identity is put into the context.
C1_AllowListed ==
    (PastToken /\ ~Protected) =>
        /\ Allowed
        /\ c.trace \cap {"header", "parseToken"} = {}
        /\ DOMAIN c.keys \cap IdentityKeys = {}
        /\ ~(c.resp.written /\ c.resp.status = 403)

C1_Witness ==
    /\ c.pc = "done"
    /\ c.path = PathHealth
    /\ WellFormed /\ MacValid /\ TheToken.alg = "HS256"
    /\ ValidateClaims(TheToken.claims, clock) = "none"
    /\ Allowed
    /\ c.resp.status = 200

C4_ExpiredAnsweredTokenExpired ==
    (PastToken /\ Protected /\ WellFormed /\ TheToken.alg = "HS256" /\ MacValid
        /\ "exp" \in DOMAIN TheToken.claims /\ TheToken.claims["exp"].v <= clock) =>
        RejectedWith(MsgTokenExpired)

\* C5 (as claimed): a token Sign made with a positive duration, presented
\* with the same secret at a time not after issue time + duration, is allowed
\* and the injected userid and username are the ones given to Sign.
C5_RoundTripUntilExpiryIncluded ==
    (PastToken /\ Protected) =>
        \A ctx \in TokenContexts, d \in Durations, n \in Instants :
            (d > 0 /\ clock <= n + d
                /\ HeaderToken = <<Tok(Sign(ctx, cfg.Secret, d, n, n, n))>>) =>
                /\ Allowed
                /\ IdentityKeys \subseteq DOMAIN c.keys
                /\ c.keys["userid"] = ctx.ID
                /\ c.keys["username"] = ctx.Username

\* C5 (amended): the same, for a time strictly before issue time + duration.
C5_RoundTripBeforeExpiry ==
    (PastToken /\ Protected) =>
        \A ctx \in TokenContexts, d \in Durations, n \in Instants :
            (d > 0 /\ clock < n + d
                /\ HeaderToken = <<Tok(Sign(ctx, cfg.Secret, d, n, n, n))>>) =>
                /\ Allowed
                /\ IdentityKeys \subseteq DOMAIN c.keys
                /\ c.keys["userid"] = ctx.ID
                /\ c.keys["username"] = ctx.Username

C5_Witness ==
    /\ c.pc = "done"
    /\ c.path = PathUser
    /\ \E n \in Instants :
          /\ n < clock
          /\ HeaderToken = <<Tok(Sign([ID |-> 6, Username |-> "bob"], cfg.Secret, Hour,
                                      n, n, n))>>
    /\ Allowed
    /\ c.keys["userid"] = 6
    /\ c.keys["username"] = "bob"
    /\ c.resp.status = 200

\* C6 (as claimed): a token whose algorithm is not HS256 is never allowed.
C6_OnlyHS256Allowed ==
    (PastToken /\ Protected /\ WellFormed /\ TheToken.alg # "HS256") => ~Allowed

\* C6 (amended): a token whose algorithm is not one of the HMAC algorithms
\* HS256, HS384, HS512 is never allowed: it is rejected with 403 TokenInvalid.
C6_OnlyHMACAllowed ==
    (PastToken /\ Protected /\ WellFormed
        /\ TheToken.alg \notin {"HS256", "HS384", "HS512"}) =>
        /\ ~Allowed
        /\ RejectedWith(MsgTokenInvalid)

C6_Witness ==
    /\ c.pc = "done"
    /\ Protected
    /\ WellFormed
    /\ TheToken.alg = "none"
    /\ TheToken.claims = Sign([ID |-> 5, Username |-> "alice"], cfg.Secret, Hour,
                              clock, clock, clock).claims
    /\ RejectedWith(MsgTokenInvalid)

\* C7: once the middleware has answered 403 TokenMissing, TokenInvalid or
\* TokenExpired, no handler, service call or store operation runs for the
\* request, nothing more is written, and no identity is in its context.
C7_RejectionShortCircuits ==
    (c.pc \in {"run", "done"}
        /\ \E m \in {MsgTokenMissing, MsgTokenInvalid, MsgTokenExpired} : Answered403(m)) =>
        /\ c.trace \cap Downstream = {}
        /\ DOMAIN c.keys \cap IdentityKeys = {}
        /\ Len(c.resp.body) = 1
        /\ c.index <= Len(pipeline)

C7_Witness ==
    /\ c.pc = "done"
    /\ c.path = PathUser
    /\ Answered403(MsgTokenInvalid)
    /\ c.trace \cap Downstream = {}

\* the response of the login request carries an access token
TokenReturned ==
    /\ c.resp.written
    /\ \E i \in 1..Len(c.resp.body) : "AccessToken" \in DOMAIN c.resp.body[i].data

\* the body's password verifies against the hash of a stored user with the
\* body's username
CredentialsMatch ==
    \E i \in 1..Len(store) :
        /\ store[i].Username = c.body.Username
        /\ store[i].Password.bcrypt
        /\ store[i].Password = HashPassword(c.body.Password, store[i].Password.salt).hash

\* C8: Login signs and returns a token only if the store holds a user with
\* the given username whose stored hash the given password verifies against.
C8_TokenOnlyForCredentials ==
    (c.pc \in {"run", "done"} /\ c.path = PathLogin
        /\ ("sign" \in c.trace \/ TokenReturned)) =>
        CredentialsMatch

C8_Witness ==
    /\ c.pc = "done"
    /\ c.path = PathLogin
    /\ TokenReturned
    /\ c.resp.status = 200
    /\ CredentialsMatch

\* C9 (as claimed): a Login for an existing username with a password that
\* does not match the stored hash is answered with HTTP 401 and AuthFailed.
C9_MismatchAnswered401 ==
    (c.pc = "done" /\ c.path = PathLogin /\ ~BindFails(c.body)
        /\ "compare" \in c.trace /\ ~CredentialsMatch) =>
        /\ c.resp.status = 401
        /\ c.resp.body[1].message = MsgAuthFailed

\* C10: a Login for a username no row of the store has is answered with 404
\* and the UserNotFound message; no password is compared, no token signed.
C10_UnknownUser404 ==
    (c.pc = "done" /\ c.path = PathLogin /\ ~BindFails(c.body)
        /\ Matching(store, c.body.Username) = << >>) =>
        /\ c.resp.status = 404
        /\ Len(c.resp.body) = 1
        /\ c.resp.body[1].code = 404
        /\ c.resp.body[1].message = MsgUserNotFound
        /\ c.trace \cap {"compare", "sign"} = {}

C10_Witness ==
    /\ c.pc = "done"
    /\ c.path = PathLogin
    /\ c.body.Username = "bob"
    /\ Registered(store) > 0
    /\ Matching(store, "bob") = << >>
    /\ c.resp.status = 404
    /\ c.resp.body[1].message = MsgUserNotFound

\* the request in flight presents the token of the client's LoginResp
PresentsHeld == held # NoData /\ HeaderToken = <<Tok(held.AccessToken)>>

\* C11: the token a successful Login returned is allowed by Token on a
\* protected route at every time before its exp, and then the userid put into
\* the context is the id of the user that logged in; from its exp on, the same
\* token is not allowed.
C11_LoginTokenAccepted ==
    (PastToken /\ Protected /\ PresentsHeld) =>
        IF clock < held.AccessToken.claims["exp"].v
        THEN /\ Allowed
             /\ c.keys["userid"] = held.Userid
             /\ \E i \in 1..Len(store) :
                   /\ store[i].ID = held.Userid
                   /\ store[i].Username = held.Username
        ELSE ~Allowed /\ DOMAIN c.keys \cap IdentityKeys = {}

C11_Witness ==
    /\ c.pc = "done"
    /\ c.path = PathUser
    /\ PresentsHeld
    /\ clock > held.AccessToken.claims["iat"].v
    /\ clock < held.AccessToken.claims["exp"].v
    /\ Allowed
    /\ c.keys["userid"] = held.Userid
    /\ c.resp.status = 200

\* the token of a login is presented after its exp and is rejected
C11_ExpiredReached ==
    /\ c.pc = "done"
    /\ c.path = PathUser
    /\ PresentsHeld
    /\ clock > held.AccessToken.claims["exp"].v
    /\ RejectedWith(MsgTokenInvalid)

\* the login request in flight was answered with a LoginResp
LoginSucceeded == c.pc = "done" /\ c.path = PathLogin /\ TokenIn(c.resp)
LoginResp == c.resp.body[1].data
\* the row Login read for the body's username
LoginUser == Matching(store, c.body.Username)[1]

\* C12 (as claimed): a successful Login response carries the user's id,
\* username and display name, token type "Bearer", and an ExpiresIn equal to
\* the token's exp minus its iat.
C12_ExpiresInIsExpMinusIat ==
    LoginSucceeded =>
        /\ LoginResp.Userid = LoginUser.ID
        /\ LoginResp.Username = LoginUser.Username
        /\ LoginResp.NickName = LoginUser.NickName
        /\ LoginResp.TokenType = "Bearer"
        /\ LoginResp.ExpiresIn = LoginResp.AccessToken.claims["exp"].v
                                   - LoginResp.AccessToken.claims["iat"].v

\* C12 (amended): a successful Login response carries the user's id, username
\* and display name, token type "Bearer", and an ExpiresIn equal to the
\* duration handed to Sign, cfg.JWT.ExpireHours hours in seconds; the token's
\* exp minus its iat is that value, or one second more when the second turns
\* between the clock readings of Sign.
C12_ExpiresInIsDuration ==
    LoginSucceeded =>
        /\ LoginResp.Userid = LoginUser.ID
        /\ LoginResp.Username = LoginUser.Username
        /\ LoginResp.NickName = LoginUser.NickName
        /\ LoginResp.TokenType = "Bearer"
        /\ LoginResp.ExpiresIn = cfg.ExpireHours * 3600
        /\ LoginResp.AccessToken.claims["exp"].v - LoginResp.AccessToken.claims["iat"].v
              \in {LoginResp.ExpiresIn, LoginResp.ExpiresIn + 1}
        /\ LoginResp.AccessToken.claims["id"].v = LoginResp.Userid

C12_Witness ==
    /\ LoginSucceeded
    /\ LoginResp.Username = "bob"
    /\ LoginResp.NickName = NickNameOf("bob")
    /\ LoginResp.ExpiresIn = 3600
    /\ LoginResp.AccessToken.claims["iat"].v = 1
    /\ LoginResp.AccessToken.claims["exp"].v = 3601

\* q is p with one byte replaced by another
OneSubstituted(p, q) ==
    /\ Len(p) = Len(q)
    /\ Cardinality({i \in 1..Len(p) : p[i] # q[i]}) = 1

\* q is p with one byte put in somewhere
OneInserted(p, q) ==
    /\ Len(q) = Len(p) + 1
    /\ \E i \in 1..Len(q) : Delete(q, i) = p

\* C13 (as claimed): CompareSimple on a user holding the hash HashPassword
\* made of p is true for p and false for every plaintext that differs from p
\* in a single character, be it replaced, added or left out.
C13_RejectsEveryVariation ==
    call.fn = "CompareSimple" =>
        /\ call.q = call.p => call.ok
        /\ (\/ OneSubstituted(call.p, call.q)
            \/ OneInserted(call.p, call.q)
            \/ OneInserted(call.q, call.p)) => ~call.ok

\* C13 (amended): CompareSimple on a user holding the hash HashPassword made
\* of p is true for p and false for every plaintext that is p with one
\* character replaced by a different one.
C13_RejectsSubstitution ==
    call.fn = "CompareSimple" =>
        /\ call.q = call.p => call.ok
        /\ OneSubstituted(call.p, call.q) => ~call.ok

C13_Witness ==
    /\ call.fn = "CompareSimple"
    /\ Len(call.p) = BcryptMaxLen
    /\ call.q = Substitute(call.p, BcryptMaxLen, "b")
    /\ call.q # call.p
    /\ ~call.ok

\* the steps of NewService in the order of the claim
BootOrder ==
    <<"LoadConfig", "Logger", "OpenDB", "AutoMigrate", "InitService",
      "CreateInitialData", "SkipRouter", "Use">>

\* C14: the server listens, and a request is handled, only after
\* configuration load, logger setup, store open, migration, service
\* registration, seeding, allow-list registration and pipeline assembly have
\* completed in this order; a step that fails ends the process with a
\* diagnostic and a nonzero exit code, no request was or will be served.
C14_OrderedFailFast ==
    /\ \E n \in 0..Len(BootOrder) : completed = SubSeq(BootOrder, 1, n)
    /\ (bootPc = "serving" \/ c.pc # "idle") =>
          /\ completed = BootOrder
          /\ exit.code = 0
    /\ exit.code # 0 <=> bootPc = "exited"
    /\ bootPc = "exited" =>
          /\ exit.diagnostic
          /\ c = Idle
          /\ held = NoData
          /\ ~ENABLED (Arrive \/ ArriveHeld)

C14_Witness ==
    /\ bootPc = "serving"
    /\ completed = BootOrder
    /\ c.pc = "done"
    /\ c.resp.status = 200
    /\ Len(store) = Len(SeedNames)

\* seeding failed: the process has left with code 1 before the allow-list
\* was registered
C14_FailedSeedingReached ==
    /\ bootPc = "exited"
    /\ exit = Exit1
    /\ completed = SubSeq(BootOrder, 1, 5)
    /\ SkipRouter = {}
    /\ pipeline = << >>

\* the chain of the request in flight, in the order of the claim
ChainOrder ==
    <<"Recovery", "loggingMiddleware", "inject", "Token", Route(c.method, c.path)>>

Visited(name) == \E i \in 1..Len(c.visited) : c.visited[i] = name

\* C15: the handlers a request has passed are, in this order, panic recovery,
\* request logger, context injection, Token and the route's handler, up to
\* the point the request has reached; a request that is not aborted passes
\* all five; when Token reads the secret or the Login handler runs, the
\* configured secret is in the request context.
C15_ChainOrder ==
    c.pc \in {"run", "done"} =>
        /\ \E n \in 0..Len(ChainOrder) : c.visited = SubSeq(ChainOrder, 1, n)
        /\ (c.pc = "done" /\ ~c.aborted) => c.visited = ChainOrder
        /\ (Visited("Token") \/ Visited("Login")) =>
              /\ "jwt-secret" \in DOMAIN c.keys
              /\ c.keys["jwt-secret"] = cfg.Secret
              /\ {"db", "config"} \subseteq DOMAIN c.keys

C15_Witness ==
    /\ c.pc = "done"
    /\ c.path = PathLogin
    /\ c.visited = <<"Recovery", "loggingMiddleware", "inject", "Token", "Login">>
    /\ TokenIn(c.resp)
    /\ c.resp.body[1].data.AccessToken.sig.key = cfg.Secret

\* C16: SkipRouter and the configuration with the signing secret are written
\* only by the bootstrap steps that load the configuration and register the
\* allow-list, while the server is not yet listening and no request is in
\* flight; no step of a request changes them.
C16_WrittenOnlyDuringBootstrap ==
    [][(SkipRouter' # SkipRouter \/ cfg' # cfg) =>
          /\ bootPc \in {"LoadConfig", "SkipRouter"}
          /\ bootPc' # "serving"
          /\ c = Idle /\ c' = Idle]_vars

C16_Witness ==
    /\ bootPc = "serving"
    /\ c.pc = "done"
    /\ c.path = PathUser
    /\ Visited("GetAllUsers")
    /\ SkipRouter = {"login", "register", "health"}
    /\ c.keys["jwt-secret"] = cfg.Secret
    /\ held # NoData

\* a run of the seeding has just returned
Seeded == call.fn \in {"CreateInitialData", "UserService.CreateInitialData"}

\* C17 (as claimed): a run of the seeding against a table that holds any row
\* leaves the number of rows as it was, and rows are inserted only when the
\* existence check succeeded and found no row.
C17_SeedsOnlyEmptyTable ==
    Seeded =>
        /\ call.before # << >> => store = call.before
        /\ store # call.before => (~call.getErr /\ call.before = << >>)

\* the same for service.CreateInitialData alone, the function NewService
\* with JWT and InsertInitialData call
C17_PackageFunctionSeedsOnlyEmptyTable ==
    call.fn = "CreateInitialData" =>
        /\ call.before # << >> => store = call.before
        /\ store # call.before => (~call.getErr /\ call.before = << >>)

\* the seeding was run on the rows of an earlier seeding and added none
C17_SecondRunReached ==
    /\ call.fn = "CreateInitialData"
    /\ Len(call.before) = Len(SeedNames)
    /\ call.before[1].Name = SeedNames[1]
    /\ store = call.before
    /\ call.err = NoErr

\* C18: the message HandleError answers with is the Message of the outermost
\* application error of the chain, or the generic internal-error message when
\* the chain has none; it is never the text of a library error, and two errors
\* with the same outermost application error get the same response.
C18_NoUnderlyingText ==
    call.fn = "HandleError" =>
        /\ call.resp.written
        /\ Len(call.resp.body) = 1
        /\ call.resp.body[1].message =
              IF As(call.err).found THEN As(call.err).Message ELSE MsgInternalError
        /\ call.resp.body[1].message \notin RawTexts
        /\ call.resp.body[1].data = NoData
        /\ \A other \in ErrorValues \ {NoErr} :
              As(other) = As(call.err) =>
                  HandleError([Idle EXCEPT !.pc = "run"], other).resp = call.resp

C18_Witness ==
    /\ call.fn = "HandleError"
    /\ call.err = Wrap(RawErr("pq: deadlock detected"), 500, MsgDBQueryError)
    /\ call.resp.status = 500
    /\ call.resp.body[1].message = MsgDBQueryError

\* C19: a request whose handling panicked is answered with HTTP 500 and no
\* body of the application; the panic changes nothing of the process: it
\* keeps serving, its store, configuration, allow-list and chain are as they
\* were, and once the response is out the context is the fresh one every
\* later request starts from.
C19_PanicRecovered ==
    /\ [](c.panicked =>
            /\ c.aborted
            /\ bootPc = "serving"
            /\ exit.code = 0
            /\ c.pc = "done" =>
                  /\ c.resp.written
                  /\ c.resp.status = 500
                  /\ c.resp.body = << >>)
    /\ [][c.panicked =>
            /\ UNCHANGED <<bootPc, cfg, SkipRouter, pipeline, store, nextID, exit, inflight>>
            /\ c.pc = "done" => c' = Idle]_vars

C19_Witness ==
    /\ c.pc = "done"
    /\ c.panicked
    /\ Visited("Token")
    /\ ~Visited("GetAllUsers")
    /\ WellFormed /\ MacValid
    /\ "id" \notin DOMAIN TheToken.claims
    /\ c.resp.status = 500
    /\ bootPc = "serving"

LoadedConfig == call.fn = "LoadConfig" /\ ~call.r.err

\* the configuration holds, for variable key, the value the environment gives
HoldsEnv(key) ==
    IF EnvField[key] \in IntFields
    THEN /\ ~Atoi(call.env[key]).err
         /\ call.r.config[EnvField[key]] = Atoi(call.env[key]).n
    ELSE call.r.config[EnvField[key]] = call.env[key]

\* C20 (as claimed): for every variable that is set while the file gives the
\* field a value, the loaded configuration holds the environment's value.
C20_EnvAlwaysWins ==
    LoadedConfig => \A key \in DOMAIN call.env : HoldsEnv(key)

\* C20 (amended): a variable set to a non-empty value, which for APP_PORT and
\* DB_PORT must be one strconv.Atoi parses, overrides the file's value (the
\* ports with the parsed number); a variable that is empty, or a port that
\* does not parse, leaves the file's value, as does every field without a
\* variable.
C20_EnvWinsWhenUsable ==
    LoadedConfig =>
        /\ \A key \in DOMAIN EnvField :
              IF /\ key \in DOMAIN call.env
                 /\ call.env[key] # << >>
                 /\ EnvField[key] \in IntFields => ~Atoi(call.env[key]).err
              THEN HoldsEnv(key)
              ELSE call.r.config[EnvField[key]] = call.file.values[EnvField[key]]
        /\ \A f \in FileOnlyFields : call.r.config[f] = call.file.values[f]

C20_Witness ==
    /\ LoadedConfig
    /\ DOMAIN call.env = {"DB_PORT", "LOG_FORMAT"}
    /\ call.env["DB_PORT"] = <<"9", "0">>
    /\ call.env["LOG_FORMAT"] = <<"9", "x">>
    /\ call.r.config["Database.Port"] = 90
    /\ call.r.config["Logging.Format"] = <<"9", "x">>
    /\ call.r.config["App.Port"] = 8080

-----------------------------------------------------------------------------
(* The Authorization header and the string that is verified *)

\* strings.TrimPrefix: the value without the prefix it starts with
TrimPrefix(h, prefix) == IF h # << >> /\ Head(h) = prefix THEN Tail(h) ELSE h

\* C21: the string Token hands to parseToken is the Authorization header
\* without its leading "Bearer " when the header starts with it, and the
\* header as it is otherwise: a bare token is handed on like a prefixed one,
\* and nothing but a leading prefix is taken out of the header.
C21_LeadingPrefixStripped ==
    (PastToken /\ "parseToken" \in c.trace) =>
        c.tokenString = TrimPrefix(HeaderGet(c.header), BearerPrefix)

\* a header with "Bearer " behind the token is verified as the bare token
C21_SchemeBehindTokenAllowed ==
    /\ c.pc = "done"
    /\ Protected
    /\ Len(HeaderGet(c.header)) = 2
    /\ HeaderGet(c.header)[2] = BearerPrefix
    /\ Allowed
    /\ c.resp.status = 200

\* a bare token is verified like a prefixed one
C21_BareTokenAllowed ==
    /\ c.pc = "done"
    /\ Protected
    /\ Len(HeaderGet(c.header)) = 1
    /\ HeaderGet(c.header)[1].k = "tok"
    /\ Allowed
    /\ c.resp.status = 200

\* C23: on a path that is not allow-listed, a token that is signed with HS256
\* under the configured secret and is not expired is ALLOWED with userid and
\* username in the context, whatever its payload holds: the request does not
\* panic and is not answered with 500.
C23_VerifiedTokenAllowed ==
    (PastToken /\ Protected /\ WellFormed /\ MacValid /\ TheToken.alg = "HS256"
        /\ ValidateClaims(TheToken.claims, clock) = "none") =>
        /\ Allowed
        /\ {"userid", "username"} \subseteq DOMAIN c.keys
        /\ ~c.panicked
        /\ ~(c.resp.written /\ c.resp.status = 500)

-----------------------------------------------------------------------------
(* The status line and the envelope *)

\* the response carries an envelope written by response.Error
ErrorEnvelope ==
    /\ c.resp.written
    /\ c.resp.body # << >>
    /\ c.resp.body[1].code # 200

\* C28: the HTTP status of a response written through response.Error is the
\* code of its envelope; HealthCheck answers an unavailable database with 503.
C28_StatusIsEnvelopeCode == ErrorEnvelope => c.resp.status = c.resp.body[1].code

\* C29: Login answers 404 only for a username that is in no row of the
\* store; a failed lookup of a stored username is not answered with 404.
C29_NotFoundOnlyForUnknownUser ==
    (c.pc = "done" /\ Route(c.method, c.path) = "Login"
        /\ c.resp.written /\ c.resp.status = 404) =>
        Matching(store, c.body.Username) = << >>

-----------------------------------------------------------------------------
(* The handlers of /v1/user/:id *)

\* the handler the router has chosen has been called
InHandler(name) ==
    /\ c.pc \in {"run", "done"}
    /\ Route(c.method, c.path) = name
    /\ "handler" \in c.trace

\* the path parameter denotes an integer that is at least 1
IntegerAtLeast1(param) == ~Atoi(param).err /\ Atoi(param).n >= 1

\* the response is the envelope with the given status and message
Answered(status, message) ==
    /\ c.resp.written
    /\ c.resp.status = status
    /\ c.resp.body[1].code = status
    /\ c.resp.body[1].message = message

\* C22: DeleteUser for an id no row of the store has is not answered with a
\* success response: the answer is 404 "user not found" (500, when the store
\* itself fails).
C22_DeleteMissing404 ==
    [][ ( /\ Running(c, pipeline)
          /\ Current(c, pipeline) = "DeleteUser"
          /\ ~BindUri(Param(c.path)).err
          /\ \A i \in 1..Len(store) : store[i].ID # BindUri(Param(c.path)).ID )
        => /\ c'.resp.written
           /\ c'.resp.status \in {404, 500}
           /\ c'.resp.status = 404 => c'.resp.body[1].message = MsgUserNotFound ]_vars

\* C24: when DeleteUser, GetUserByID or UpdateUser is called with a path id
\* that is not an integer of at least 1, the answer is 400 "invalid user id"
\* and neither the service nor the store is called: the store stays as it is.
C24_InvalidID400 ==
    (InHandler("DeleteUser") \/ InHandler("GetUserByID") \/ InHandler("UpdateUser")) =>
        (~IntegerAtLeast1(Param(c.path)) =>
            /\ Answered(400, MsgInvalidUserID)
            /\ "store" \notin c.trace)

C24_StoreUntouched ==
    [][ (Running(c, pipeline)
            /\ Current(c, pipeline) \in {"DeleteUser", "GetUserByID", "UpdateUser"}
            /\ ~IntegerAtLeast1(Param(c.path)))
        => store' = store ]_vars

C24_Witness ==
    /\ c.pc = "done"
    /\ InHandler("UpdateUser")
    /\ Param(c.path) = <<"-", "3">>
    /\ c.body.Name = "ann"
    /\ "token" \in DOMAIN c.keys
    /\ Answered(400, MsgInvalidUserID)

\* the request presented a token that Token verified: it is well-formed, its
\* MAC recomputes under the configured secret, it has not expired, and the
\* identity it carries is in the context
VerifiedToken ==
    /\ "parseToken" \in c.trace
    /\ WellFormed /\ MacValid
    /\ ValidateClaims(TheToken.claims, clock) = "none"
    /\ IdentityKeys \subseteq DOMAIN c.keys

\* C25: a request to a route under /v1/user reaches the user service or the
\* store only after it presented a token that Token verified, although Token
\* compares only the last path segment with the allow-list.
C25_NoStoreWithoutToken == ("store" \in c.trace) => VerifiedToken

C25_Witness ==
    /\ c.pc = "done"
    /\ c.method = "DELETE"
    /\ c.path = PathUserID(<<"login">>)
    /\ c.header = Absent
    /\ Allowed
    /\ "parseToken" \notin c.trace
    /\ InHandler("DeleteUser")
    /\ Answered(400, MsgInvalidUserID)
    /\ "store" \notin c.trace

-----------------------------------------------------------------------------
(* Requests served side by side *)

\* the rows that carry the given seed name
Copies(name) == {i \in 1..Len(store) : store[i].Name = name}

\* C26: however the calls of CreateInitialData interleave, the table holds at
\* most one copy of the seed rows.
C26_OneCopyOfSeedRows ==
    \A k \in 1..Len(SeedNames) : Cardinality(Copies(SeedNames[k])) <= 1

\* the row with the given key was inserted and DeleteUser(id) has returned
\* nil for it
Deleted(id) ==
    /\ id < nextID
    /\ \E p \in 1..MaxRequests :
          /\ inflight[p].fn = "DeleteUser"
          /\ inflight[p].pc = "done"
          /\ inflight[p].err = NoErr
          /\ inflight[p].id = id

\* GetUserByID finds the user, or GetAllUsers lists it
Visible(st, id) ==
    \/ GetByID(st, id, FALSE).err = NoErr
    \/ \E i \in 1..Len(GetAll(st, FALSE).users) : GetAll(st, FALSE).users[i].ID = id

\* C27: once DeleteUser(id) has returned nil, the user stays deleted whatever
\* an UpdateUser(id) that runs beside it does: no step makes a deleted user
\* visible to GetUserByID or GetAllUsers again.
C27_StaysDeleted ==
    [][ \A id \in DeleteIds :
           (Deleted(id) /\ ~Visible(store, id)) => ~Visible(store', id) ]_vars

-----------------------------------------------------------------------------
(* sumParallelChunks *)

InSum == call.fn = "sumParallelChunks"

\* the second loop waits for a value no goroutine will send
SumDeadlocked ==
    /\ call.pc = "collect"
    /\ call.results = << >>
    /\ call.goroutines = {}

\* C30: for every slice and every chunk count, sumParallelChunks neither
\* panics nor waits for ever; when it returns, the sum of every goroutine it
\* started has been received, once, and the result is sumSequential(nums).
C30_ParallelEqualsSequential ==
    InSum =>
        /\ call.pc # "panicked"
        /\ ~SumDeadlocked
        /\ call.pc = "returned" =>
              /\ call.goroutines = {}
              /\ call.results = << >>
              /\ call.received = call.i
              /\ call.total = sumSequential(call.nums)

\* where it does not panic, sumParallelChunks does what C30 says
C30_EqualUnlessPanicked ==
    InSum =>
        /\ ~SumDeadlocked
        /\ call.pc = "returned" =>
              /\ call.goroutines = {}
              /\ call.results = << >>
              /\ call.received = call.i
              /\ call.total = sumSequential(call.nums)

====
